---- MODULE Spec2Model ----
(***************************************************************************)
(* Ingestion and discourse-analysis engine of the Thermoculture Research   *)
(* Assistant: text normalisation (collectors/pipeline.py), the ingestion   *)
(* pipeline over a SQLAlchemy session, and the analysis orchestrator       *)
(* (nlp/analyzer.py).                                                      *)
(*                                                                         *)
(* A text is a sequence of symbols.  A symbol is one character class of    *)
(* the alphabet below, or a whole word (a run of letters with no           *)
(* whitespace, control character or combining mark in it).                 *)
(***************************************************************************)
EXTENDS Integers, Sequences, FiniteSets, Bags, TLC

VARIABLES
    nText,        \* normaliser run: the input text (or NoneText)
    nOut,         \* normaliser run: _normalise_text(nText)
    nOut2,        \* normaliser run: _normalise_text(nOut)
    nPc,          \* normaliser run: "start" | "once" | "twice"
    locations,    \* the locations table: a set of rows [id, name]
    committed,    \* discourse_samples rows of committed transactions (a bag:
                  \* the primary key is left out, equal rows are counted)
    flushed,      \* discourse_samples rows INSERTed by the session's open
                  \* transaction (a rollback undoes them, a commit keeps them)
    call,         \* the last ingest_items call: its arguments, what it saw
                  \* when it began, and what it returned
    aPending,     \* analysis session: objects added and not yet flushed (a bag)
    aFlushed,     \* analysis session: rows flushed by the open transaction
    aCommitted,   \* analysis results of committed transactions
    analysed,     \* per sample: how often analyze_sample has run on it
    acall,        \* the last analyze_sample / analyze_batch call
    pIn,          \* a function of the program called on its own: its arguments
    pOut,         \* what the call returned
    pPc,          \* "idle", "called" (arguments chosen) or "returned"
    engine        \* the analysers' instance state that outlives a call

nvars == <<nText, nOut, nOut2, nPc>>

ivars == <<locations, committed, flushed, call>>

avars == <<aPending, aFlushed, aCommitted, analysed, acall>>

pvars == <<pIn, pOut, pPc, engine>>

-----------------------------------------------------------------------------
(* Bounds *)

MaxTextLen == 4

MaxItems == 3        \* items handed to one ingest_items call

MaxRows == 6         \* rows of discourse_samples

(* batch_size of _batch_insert.  The code's default is 100; the model uses *)
(* a small batch so that a call of MaxItems items spans several batches.   *)
BatchSize == 2

MaxHints == 2        \* location hints of one collected item

MaxWords == 3        \* symbols of a text handed to the classifier

MaxGeoWords == 3     \* words of a text handed to the location matchers

MaxBatch == 2        \* records handed to one analyze_batch call

MaxAnalyses == 3     \* analyze_sample runs in one behaviour

-----------------------------------------------------------------------------
(* Characters.                                                             *)
(*   "x"        a letter that composes with no combining mark              *)
(*   "e"        a base letter; "e" + "ACUTE" composes to "E_ACUTE" in NFC   *)
(*   "ACUTE"    U+0301 COMBINING ACUTE ACCENT                               *)
(*   "E_ACUTE"  U+00E9, the precomposed letter                              *)
(*   "NUL"      U+0000                                                      *)
(*   "SOH"      U+0001, a control character that is not whitespace          *)
(*   "SP"       U+0020                                                      *)
(*   "TAB"      U+0009, a control character that str.split() treats as      *)
(*              whitespace                                                  *)

Chars == {"x", "e", "ACUTE", "E_ACUTE", "NUL", "SOH", "SP", "TAB"}

Whitespace == {"SP", "TAB"}

ControlChars == {"NUL", "SOH", "TAB"}

(* Python's None, passed where a text is expected: a value that is no
   text of the alphabet. *)
NoneText == <<"None">>

SeqsUpTo(S, n) == UNION {[1..k -> S] : k \in 0..n}

Texts == SeqsUpTo(Chars, MaxTextLen)

-----------------------------------------------------------------------------
(* unicodedata.normalize("NFC", text): canonical composition.  A base       *)
(* letter directly followed by its combining mark becomes the precomposed   *)
(* letter; any other character between them (NUL included) is a starter     *)
(* and blocks the composition.                                              *)

RECURSIVE NFC(_)
NFC(s) ==
    IF Len(s) < 2 THEN s
    ELSE IF s[1] = "e" /\ s[2] = "ACUTE"
         THEN <<"E_ACUTE">> \o NFC(SubSeq(s, 3, Len(s)))
         ELSE <<s[1]>> \o NFC(Tail(s))

(* text.replace("\x00", "") *)
RemoveNul(s) == SelectSeq(s, LAMBDA c : c # "NUL")

(* text.split(): the maximal runs of non-whitespace characters, in order.   *)
RECURSIVE SplitFrom(_, _, _)
SplitFrom(s, i, cur) ==
    IF i > Len(s)
    THEN (IF cur = <<>> THEN <<>> ELSE <<cur>>)
    ELSE IF s[i] \in Whitespace
         THEN (IF cur = <<>> THEN <<>> ELSE <<cur>>) \o SplitFrom(s, i + 1, <<>>)
         ELSE SplitFrom(s, i + 1, Append(cur, s[i]))

Split(s) == SplitFrom(s, 1, <<>>)

(* " ".join(words) *)
RECURSIVE Join(_)
Join(ws) ==
    IF ws = <<>> THEN <<>>
    ELSE IF Len(ws) = 1 THEN ws[1]
    ELSE ws[1] \o <<"SP">> \o Join(Tail(ws))

(* text.strip(): drop leading and trailing whitespace.                      *)
RECURSIVE LStrip(_)
LStrip(s) ==
    IF s # <<>> /\ s[1] \in Whitespace THEN LStrip(Tail(s)) ELSE s

RECURSIVE RStrip(_)
RStrip(s) ==
    IF s # <<>> /\ s[Len(s)] \in Whitespace
    THEN RStrip(SubSeq(s, 1, Len(s) - 1)) ELSE s

Strip(s) == RStrip(LStrip(s))

(* A bug the idempotence and output-shape checks must notice: the           *)
(* whitespace is not collapsed.                                             *)
_normalise_text_nocollapse(text) ==
    IF text = NoneText \/ text = <<>> THEN <<>>
    ELSE Strip(RemoveNul(NFC(text)))

(* _normalise_text: NFC, drop NUL, collapse whitespace, strip.              *)
_normalise_text(text) ==
    IF text = NoneText \/ text = <<>> THEN <<>>
    ELSE Strip(Join(Split(RemoveNul(NFC(text)))))


-----------------------------------------------------------------------------
(* Words.  str.lower() on the words the model uses.                        *)

LowerOf(w) ==
    CASE w = "Leeds"   -> "leeds"
      [] w = "LEEDS"   -> "leeds"
      [] w = "York"    -> "york"
      [] w = "Reading" -> "reading"
      [] w = "Narnia"  -> "narnia"
      [] w = "New"     -> "new"
      [] w = "Flood"   -> "flood"
      [] w = "Heat"    -> "heat"
      [] w = "Installed" -> "installed"
      [] w = "Flooding" -> "flooding"
      [] OTHER         -> w

(* Number of characters of a symbol. *)
CharLen(sym) == IF sym \in Chars \cup {"DOT"} THEN 1 ELSE Len(sym)

-----------------------------------------------------------------------------
(* collectors/locations.py, on a gazetteer of three places.                *)

UK_LOCATIONS == [Leeds |-> "YORKSHIRE", York |-> "YORKSHIRE", Reading |-> "SOUTH_EAST"]

_LOCATION_NAMES_LOWER == [n \in {LowerOf(c) : c \in DOMAIN UK_LOCATIONS} |->
                            CHOOSE c \in DOMAIN UK_LOCATIONS : LowerOf(c) = n]

_AMBIGUOUS_NAMES == {"reading", "york"}

_GEO_CONTEXT_WORDS == {"flooding", "flood", "town", "centre", "city", "east"}

(* The context words that occur in a lower-cased word as a substring      *)
(* (ctx in window).                                                        *)
ContextWordsIn(w) ==
    CASE w = "flooding" -> {"flooding", "flood"}
      [] w = "least"    -> {"east"}
      [] OTHER          -> {w} \cap _GEO_CONTEXT_WORDS

_CONTEXT_WINDOW == 80

RECURSIVE TokStart(_, _)
TokStart(text, i) ==
    IF i <= 1 THEN 0 ELSE TokStart(text, i - 1) + CharLen(text[i - 1])

TokEnd(text, i) == TokStart(text, i) + CharLen(text[i])

Max(a, b) == IF a >= b THEN a ELSE b
Min(a, b) == IF a <= b THEN a ELSE b

(* _has_geo_context: a context word inside the window of _CONTEXT_WINDOW   *)
(* characters before and after the match (the match itself included).      *)
_has_geo_context(text, i) ==
    LET window_start == Max(0, TokStart(text, i) - _CONTEXT_WINDOW)
        window_end   == Min(TokEnd(text, Len(text)), TokEnd(text, i) + _CONTEXT_WINDOW)
    IN \E j \in 1..Len(text) :
          /\ TokStart(text, j) >= window_start
          /\ TokEnd(text, j) <= window_end
          /\ ContextWordsIn(LowerOf(text[j])) # {}

(* _is_new_york: the four characters before the match, lower-cased and     *)
(* right-stripped, end with "new": the word before is "new" and exactly    *)
(* one whitespace character separates it from the match.                   *)
_is_new_york(text, i) ==
    /\ i >= 3
    /\ text[i - 1] \in Whitespace
    /\ LowerOf(text[i - 2]) = "new"

(* A bug the deduplication must notice: the names already reported are    *)
(* not remembered.                                                         *)
RECURSIVE find_from_noseen(_, _, _, _)
find_from_noseen(text, i, seen, results) ==
    IF i > Len(text) THEN results
    ELSE LET matched_lower == LowerOf(text[i]) IN
         IF matched_lower \notin DOMAIN _LOCATION_NAMES_LOWER
         THEN find_from_noseen(text, i + 1, seen, results)
         ELSE IF matched_lower = "york" /\ _is_new_york(text, i)
         THEN find_from_noseen(text, i + 1, seen, results)
         ELSE IF matched_lower \in _AMBIGUOUS_NAMES /\ ~_has_geo_context(text, i)
         THEN find_from_noseen(text, i + 1, seen, results)
         ELSE find_from_noseen(text, i + 1, seen,
                  Append(results, [name |-> _LOCATION_NAMES_LOWER[matched_lower],
                                   region |-> UK_LOCATIONS[_LOCATION_NAMES_LOWER[matched_lower]]]))

(* find_locations: one pass over the matches of the gazetteer pattern.     *)
RECURSIVE find_from(_, _, _, _)
find_from(text, i, seen, results) ==
    IF i > Len(text) THEN results
    ELSE LET matched_lower == LowerOf(text[i]) IN
         IF matched_lower \notin DOMAIN _LOCATION_NAMES_LOWER
         THEN find_from(text, i + 1, seen, results)
         ELSE IF matched_lower \in seen
         THEN find_from(text, i + 1, seen, results)
         ELSE IF matched_lower = "york" /\ _is_new_york(text, i)
         THEN find_from(text, i + 1, seen, results)
         ELSE IF matched_lower \in _AMBIGUOUS_NAMES /\ ~_has_geo_context(text, i)
         THEN find_from(text, i + 1, seen, results)
         ELSE LET canonical_name == _LOCATION_NAMES_LOWER[matched_lower] IN
              find_from(text, i + 1, seen \cup {matched_lower},
                        Append(results, [name |-> canonical_name,
                                         region |-> UK_LOCATIONS[canonical_name]]))

find_locations(text) == IF text = <<>> THEN <<>> ELSE find_from(text, 1, {}, <<>>)

-----------------------------------------------------------------------------
(* collectors/pipeline.py                                                  *)

Sources == {"S1", "S2"}

(* location_id None: no location. *)
NoLocation == "None"

LocationNames == {"Leeds"}

(* The primary keys the database hands out for new location rows, in order. *)
LocationIds == <<"L1">>

(* hashlib.md5(...).hexdigest(): a digest, taken as injective on the texts *)
(* of the model.                                                           *)
_content_hash(normalised_content) == <<"md5">> \o normalised_content

(* The rows a session sees: the committed ones and its own uncommitted.    *)
Visible == BagToSet(committed (+) flushed)

(* _load_existing_hashes: the content_hash values stored in the metadata   *)
(* of the rows of one source.                                              *)
_load_existing_hashes_all_sources(rows, source_id) ==
    {r.raw_metadata["content_hash"] :
        r \in {x \in rows : "content_hash" \in DOMAIN x.raw_metadata}}

_load_existing_hashes(rows, source_id) ==
    {r.raw_metadata["content_hash"] :
        r \in {x \in rows : /\ x.source_id = source_id
                            /\ "content_hash" \in DOMAIN x.raw_metadata}}

(* _load_location_cache: {row.name.lower(): row.id}.  When two rows share  *)
(* a lower-cased name the dict keeps whichever row the query returned      *)
(* last: any of them.                                                      *)
_load_location_cache(locs) ==
    {f \in [{LowerOf(l.name) : l \in locs} -> {l.id : l \in locs}] :
        \A n \in DOMAIN f : \E l \in locs : LowerOf(l.name) = n /\ l.id = f[n]}

RECURSIVE first_in_cache(_, _)
first_in_cache(keys, location_cache) ==
    IF keys = <<>> THEN NoLocation
    ELSE IF keys[1] \in DOMAIN location_cache THEN location_cache[keys[1]]
    ELSE first_in_cache(Tail(keys), location_cache)

(* A bug the duplicate check must notice: the hash of a new item is not    *)
(* remembered, so a later item of the same batch is not compared with it.  *)
ingest_item_unseen(acc, item, source_id, location_cache) ==
    IF _content_hash(_normalise_text(item.content)) \in acc.existing_hashes
    THEN [acc EXCEPT !.duplicates = @ + 1]
    ELSE [acc EXCEPT !.new_samples =
             Append(@, [content |-> _normalise_text(item.content),
                        source_id |-> source_id,
                        location_id |-> NoLocation,
                        raw_metadata |-> ("content_hash" :>
                                            _content_hash(_normalise_text(item.content))),
                        fault |-> item.fault])]

(* A bug the location frame must notice: an unknown hint is resolved to a  *)
(* location that the table does not hold.                                  *)
_resolve_location_autocreate(item, normalised_content, location_cache) ==
    IF item.location_hints # <<>>
    THEN (IF LowerOf(item.location_hints[1]) \in DOMAIN location_cache
          THEN location_cache[LowerOf(item.location_hints[1])]
          ELSE "L-new")
    ELSE NoLocation

(* A bug the resolution order must notice: the body is scanned before the  *)
(* hints are looked at.                                                    *)
_resolve_location_body_first(item, normalised_content, location_cache) ==
    LET matches == find_locations(normalised_content)
        byBody == first_in_cache([k \in 1..Len(matches) |-> LowerOf(matches[k].name)],
                                 location_cache)
    IN IF byBody # NoLocation THEN byBody
       ELSE first_in_cache([k \in 1..Len(item.location_hints) |->
                               LowerOf(item.location_hints[k])], location_cache)

(* _resolve_location: the first hint in the cache, else the first          *)
(* find_locations match in the cache, else None.                           *)
_resolve_location(item, normalised_content, location_cache) ==
    LET byHint == first_in_cache([k \in 1..Len(item.location_hints) |->
                                     LowerOf(item.location_hints[k])], location_cache)
        matches == find_locations(normalised_content)
    IN IF byHint # NoLocation THEN byHint
       ELSE first_in_cache([k \in 1..Len(matches) |-> LowerOf(matches[k].name)],
                           location_cache)

(* A bug the stored fingerprint must notice: a content_hash that the       *)
(* harvester supplied is kept (setdefault instead of assignment).          *)
ingest_item_setdefault(acc, item, source_id, location_cache) ==
    LET normalised_content == _normalise_text(item.content)
        content_hash == _content_hash(normalised_content)
    IN IF content_hash \in acc.existing_hashes
       THEN [acc EXCEPT !.duplicates = @ + 1, !.harvested = Append(@, item)]
       ELSE [existing_hashes |-> acc.existing_hashes \cup {content_hash},
             duplicates |-> acc.duplicates,
             harvested |-> Append(acc.harvested, item),
             new_samples |->
                Append(acc.new_samples,
                       [content |-> normalised_content,
                        source_id |-> source_id,
                        location_id |-> _resolve_location(item, normalised_content, location_cache),
                        raw_metadata |-> item.raw_metadata @@ ("content_hash" :> content_hash),
                        fault |-> item.fault])]

(* The loop body of ingest_items (lines 86-121) for one item.  acc holds   *)
(* existing_hashes, stats["duplicates"], new_samples and the items as the  *)
(* loop leaves them (metadata is a copy, dict(item.raw_metadata), so the   *)
(* item keeps its raw_metadata).                                           *)
ingest_item(acc, item, source_id, location_cache) ==
    LET normalised_content == _normalise_text(item.content)
        content_hash == _content_hash(normalised_content)
    IN IF content_hash \in acc.existing_hashes
       THEN [acc EXCEPT !.duplicates = @ + 1, !.harvested = Append(@, item)]
       ELSE LET location_id == _resolve_location(item, normalised_content, location_cache)
                metadata == IF item.location_hints # <<>>
                            THEN ("location_hints" :> item.location_hints)
                                 @@ ("content_hash" :> content_hash) @@ item.raw_metadata
                            ELSE ("content_hash" :> content_hash) @@ item.raw_metadata
                sample == [content |-> normalised_content,
                           source_id |-> source_id,
                           location_id |-> location_id,
                           raw_metadata |-> metadata,
                           fault |-> item.fault]
            IN [existing_hashes |-> acc.existing_hashes \cup {content_hash},
                duplicates |-> acc.duplicates,
                harvested |-> Append(acc.harvested, item),
                new_samples |-> Append(acc.new_samples, sample)]

RECURSIVE ingest_loop(_, _, _, _)
ingest_loop(acc, items, source_id, location_cache) ==
    IF items = <<>> THEN acc
    ELSE ingest_loop(ingest_item(acc, items[1], source_id, location_cache),
                     Tail(items), source_id, location_cache)

-----------------------------------------------------------------------------
(* _batch_insert over the session.  A session state is                     *)
(*   [flushed: the rows of the open transaction, raised: an exception has  *)
(*    left the function].                                                  *)
(* The database answers the INSERT of a row with its fault: "none", an     *)
(* IntegrityError ("integrity") or another error ("other").  db.rollback() *)
(* rolls the whole open transaction back: every row flushed since the last *)
(* commit is undone and leaves the session.                                *)

Faults == {"none", "integrity", "other"}

RECURSIVE first_fault(_)
first_fault(batch) ==
    IF batch = <<>> THEN "none"
    ELSE IF batch[1].fault # "none" THEN batch[1].fault
    ELSE first_fault(Tail(batch))

RECURSIVE SeqToBag(_)
SeqToBag(q) == IF q = <<>> THEN EmptyBag ELSE SetToBag({q[1]}) (+) SeqToBag(Tail(q))

rollback(st) == [st EXCEPT !.flushed = EmptyBag]

(* A bug the error containment must notice: the retry of a row is not      *)
(* guarded, so its IntegrityError leaves _batch_insert.                    *)
row_insert_unguarded(st, sample) ==
    IF st.raised THEN st
    ELSE IF sample.fault = "none"
    THEN [st EXCEPT !.flushed = @ (+) SetToBag({sample})]
    ELSE [st EXCEPT !.raised = TRUE]

(* Lines 222-236: db.add(sample); flush; on any error roll back and go on. *)
row_insert(st, sample) ==
    IF st.raised THEN st
    ELSE IF sample.fault = "none"
    THEN [st EXCEPT !.flushed = @ (+) SetToBag({sample})]
    ELSE rollback(st)

RECURSIVE row_by_row(_, _)
row_by_row(st, batch) ==
    IF batch = <<>> THEN st
    ELSE row_by_row(row_insert(st, batch[1]), Tail(batch))

(* Lines 207-239: add the batch, flush, and handle the flush's error.      *)
flush_batch(st, batch) ==
    IF st.raised THEN st
    ELSE CASE first_fault(batch) = "none"      -> [st EXCEPT !.flushed = @ (+) SeqToBag(batch)]
           [] first_fault(batch) = "integrity" -> row_by_row(rollback(st), batch)
           [] OTHER                            -> rollback(st)

RECURSIVE _batch_insert(_, _, _)
_batch_insert(st, samples, batch_size) ==
    IF samples = <<>> THEN st
    ELSE LET n == Min(batch_size, Len(samples)) IN
         _batch_insert(flush_batch(st, SubSeq(samples, 1, n)),
                       SubSeq(samples, n + 1, Len(samples)), batch_size)

-----------------------------------------------------------------------------
(* The harvested items a call may be given.                                *)

cA  == <<"Flood", "SP", "hits", "SP", "Leeds">>
cA2 == <<"SP", "Flood", "TAB", "hits", "SP", "SP", "Leeds">>
cB  == <<"New", "SP", "York", "SP", "flooding">>
cD  == <<"York", "SP", "city", "SP", "flood">>

NoMetadata == [k \in {} |-> ""]

(* raw_metadata of a harvester that already put a content_hash in it. *)
StaleMetadata == ("content_hash" :> <<"md5", "stale">>)

ItemPool ==
    { [content |-> cA,  location_hints |-> <<>>,
       raw_metadata |-> NoMetadata, fault |-> "none"],
      [content |-> cA2, location_hints |-> <<>>,
       raw_metadata |-> NoMetadata, fault |-> "none"],
      [content |-> cB,  location_hints |-> <<"Narnia">>,
       raw_metadata |-> NoMetadata, fault |-> "integrity"],
      [content |-> cD,  location_hints |-> <<"Narnia", "LEEDS">>,
       raw_metadata |-> StaleMetadata, fault |-> "none"] }

ItemLists == SeqsUpTo(ItemPool, MaxItems)

NoCall == [items |-> <<>>, source_id |-> "None", before |-> {}, locations |-> {},
           cache |-> <<>>, new_samples |-> <<>>, stats |-> [total |-> 0, new |-> 0, duplicates |-> 0],
           harvested |-> <<>>, raised |-> FALSE, returned |-> FALSE]

IngestInit ==
    /\ locations = {}
    /\ committed = EmptyBag
    /\ flushed = EmptyBag
    /\ call = NoCall

(* ingest_items(items, source_id, db), lines 73-134.                       *)
ingest_items(items, source_id) ==
    /\ call = NoCall
    /\ \E location_cache \in _load_location_cache(locations) :
       \E existing \in {_load_existing_hashes(Visible, source_id)} :
       \E acc \in {ingest_loop([existing_hashes |-> existing, duplicates |-> 0,
                                harvested |-> <<>>, new_samples |-> <<>>],
                               items, source_id, location_cache)} :
       \E st \in {IF items = <<>> THEN [flushed |-> flushed, raised |-> FALSE]
                  ELSE _batch_insert([flushed |-> flushed, raised |-> FALSE],
                                     acc.new_samples, BatchSize)} :
         /\ BagCardinality(committed) + BagCardinality(st.flushed) <= MaxRows
         /\ flushed' = st.flushed
         /\ call' = [items |-> items, source_id |-> source_id,
                     before |-> Visible, locations |-> locations,
                     cache |-> location_cache,
                     new_samples |-> acc.new_samples,
                     harvested |-> acc.harvested,
                     stats |-> [total |-> Len(items),
                                new |-> Len(acc.new_samples),
                                duplicates |-> acc.duplicates],
                     raised |-> st.raised, returned |-> ~st.raised]
    /\ UNCHANGED <<locations, committed>>
    /\ UNCHANGED <<nvars, avars, pvars>>

Ingest == \E items \in ItemLists, source_id \in Sources : ingest_items(items, source_id)

(* The caller commits the session (get_db, routes.py line 1335).           *)
Commit ==
    /\ call = NoCall
    /\ flushed # EmptyBag
    /\ committed' = committed (+) flushed
    /\ flushed' = EmptyBag
    /\ UNCHANGED <<locations, call>>
    /\ UNCHANGED <<nvars, avars, pvars>>

(* create_location (routes.py): another request adds a location row.       *)
create_location ==
    /\ call = NoCall
    /\ Cardinality(locations) < Len(LocationIds)
    /\ \E name \in LocationNames :
          locations' = locations \cup {[id |-> LocationIds[Cardinality(locations) + 1],
                                        name |-> name]}
    /\ UNCHANGED <<committed, flushed, call>>
    /\ UNCHANGED <<nvars, avars, pvars>>

(* The caller has read the statistics of the call. *)
Return ==
    /\ call # NoCall
    /\ call' = NoCall
    /\ UNCHANGED <<locations, committed, flushed>>
    /\ UNCHANGED <<nvars, avars, pvars>>

IngestNext == Ingest \/ Return \/ Commit \/ create_location


-----------------------------------------------------------------------------
(* app/models/models.py: the mapped classes the module defines and the     *)
(* attributes of each (columns and relationships).  A class that is not in *)
(* the domain cannot be imported from app.models.models.                   *)

ModelAttributes ==
    [SentimentAnalysis |->
        {"id", "sample_id", "overall_sentiment", "sentiment_label", "confidence",
         "analyzed_at", "sample"},
     DiscourseClassification |->
        {"id", "sample_id", "classification_type", "confidence", "classified_at",
         "sample"},
     Theme |->
        {"id", "name", "description", "category", "created_at", "discourse_samples"}]

(* from app.models.models import ...: ImportError unless every name exists. *)
CanImport(names) == names \subseteq DOMAIN ModelAttributes

(* The declarative constructor: TypeError for a keyword argument that is   *)
(* no attribute of the class.                                              *)
ConstructorAccepts(cls, kwargs) == kwargs \subseteq ModelAttributes[cls]

-----------------------------------------------------------------------------
(* nlp/analyzer.py.  A session state is                                    *)
(*   [pending, flushed: bags of objects, raised: an exception is           *)
(*    propagating].                                                        *)

SampleIds == {"R1", "R2"}

AddObject(st, obj) == [st EXCEPT !.pending = @ (+) SetToBag({obj})]

(* db.flush(): the pending objects are INSERTed. *)
Flush(st) ==
    IF st.raised THEN st
    ELSE [st EXCEPT !.flushed = @ (+) st.pending, !.pending = EmptyBag]

Raise(st) == [st EXCEPT !.raised = TRUE]

_store_sentiment(st, sample_id, result) ==
    IF st.raised THEN st
    ELSE IF ~CanImport({"SentimentAnalysis"}) THEN st
    ELSE IF ~ConstructorAccepts("SentimentAnalysis",
                {"id", "sample_id", "overall_sentiment", "sentiment_label",
                 "confidence", "analyzed_at"})
    THEN Raise(st)
    ELSE AddObject(st, [cls |-> "SentimentAnalysis", sample_id |-> sample_id,
                        value |-> result])

_store_classification(st, sample_id, result) ==
    IF st.raised THEN st
    ELSE IF ~CanImport({"DiscourseClassification"}) THEN st
    ELSE IF ~ConstructorAccepts("DiscourseClassification",
                {"id", "sample_id", "classification_type", "confidence",
                 "all_scores", "analyzed_at"})
    THEN Raise(st)
    ELSE AddObject(st, [cls |-> "DiscourseClassification", sample_id |-> sample_id,
                        value |-> result])

(* The Theme row of a name that the session can see, if any. *)
ThemeRows(st, theme_name) ==
    {o \in BagToSet(st.flushed (+) aCommitted) : o.cls = "Theme" /\ o.value = theme_name}

(* One pass of the loop of _store_themes (lines 288-311). *)
store_theme(st, sample_id, theme_data) ==
    IF st.raised THEN st
    ELSE LET found == ThemeRows(Flush(st), theme_data)
             st1 == IF found # {} THEN Flush(st)
                    ELSE IF ~ConstructorAccepts("Theme", {"id", "name"}) THEN Raise(st)
                    ELSE Flush(AddObject(Flush(st),
                             [cls |-> "Theme", sample_id |-> "None", value |-> theme_data]))
         IN IF st1.raised THEN st1
            ELSE AddObject(st1, [cls |-> "SampleTheme", sample_id |-> sample_id,
                                 value |-> theme_data])

RECURSIVE store_themes_loop(_, _, _)
store_themes_loop(st, sample_id, themes) ==
    IF themes = <<>> THEN st
    ELSE store_themes_loop(store_theme(st, sample_id, themes[1]), sample_id, Tail(themes))

_store_themes(st, sample_id, themes) ==
    IF st.raised THEN st
    ELSE IF ~CanImport({"Theme", "SampleTheme"}) THEN st
    ELSE store_themes_loop(st, sample_id, themes)

RECURSIVE store_locations_loop(_, _, _)
store_locations_loop(st, sample_id, locs) ==
    IF locs = <<>> THEN st
    ELSE store_locations_loop(
            AddObject(st, [cls |-> "SampleLocation", sample_id |-> sample_id,
                           value |-> locs[1]]),
            sample_id, Tail(locs))

_store_locations(st, sample_id, locs) ==
    IF st.raised THEN st
    ELSE IF ~CanImport({"SampleLocation"}) THEN st
    ELSE store_locations_loop(st, sample_id, locs)

(* What the analysers return for a record: the sentiment and the           *)
(* classification of its text, the themes and the locations extracted.     *)
AnalysisInputs ==
    [sample_id : SampleIds,
     sentiment : {"NEGATIVE"},
     classification : {"PRACTICAL_ADAPTATION"},
     themes : {<<>>, <<"Flooding", "Energy">>},
     locations : {<<>>, <<"Leeds">>}]

(* analyze_sample, lines 67-90, on the results of the analysers: the state *)
(* of the session afterwards; raised tells whether it raised.              *)
analyze_sample(st, rec) ==
    Flush(_store_locations(
            _store_themes(
              _store_classification(
                _store_sentiment([st EXCEPT !.raised = FALSE], rec.sample_id, rec.sentiment),
                rec.sample_id, rec.classification),
              rec.sample_id, rec.themes),
            rec.sample_id, rec.locations))

ResultOf(rec) ==
    [sample_id |-> rec.sample_id, sentiment |-> rec.sentiment, themes |-> rec.themes,
     classification |-> rec.classification, locations |-> rec.locations]

ErrorOf(rec) == [sample_id |-> rec.sample_id, error |-> "Analysis failed"]

(* A bug the batch isolation must notice: the call of analyze_sample is    *)
(* not guarded, so the first failure ends the batch.                       *)
batch_step_unguarded(acc, rec) ==
    IF acc.st.raised THEN acc
    ELSE LET st1 == analyze_sample(acc.st, rec)
         IN [st |-> st1,
             results |-> IF st1.raised THEN acc.results
                         ELSE Append(acc.results, ResultOf(rec)),
             attempted |-> Append(acc.attempted, rec.sample_id),
             failed |-> Append(acc.failed, st1.raised)]

(* The loop body of analyze_batch, lines 125-134. *)
batch_step(acc, rec) ==
    LET st1 == analyze_sample(acc.st, rec)
    IN [st |-> [st1 EXCEPT !.raised = FALSE],
        results |-> Append(acc.results,
                           IF st1.raised THEN ErrorOf(rec) ELSE ResultOf(rec)),
        attempted |-> Append(acc.attempted, rec.sample_id),
        failed |-> Append(acc.failed, st1.raised)]

RECURSIVE analyze_batch(_, _)
analyze_batch(acc, recs) ==
    IF recs = <<>> THEN acc
    ELSE analyze_batch(batch_step(acc, recs[1]), Tail(recs))

NoACall == [kind |-> "None", inputs |-> <<>>, results |-> <<>>, attempted |-> <<>>,
            failed |-> <<>>, raised |-> FALSE, before |-> EmptyBag]

AnalysisIdle ==
    /\ aPending = EmptyBag
    /\ aFlushed = EmptyBag
    /\ aCommitted = EmptyBag
    /\ analysed = [r \in SampleIds |-> 0]
    /\ acall = NoACall

AnalysisInit == AnalysisIdle

AnalysisObjects == aPending (+) aFlushed (+) aCommitted

TotalAnalysed == analysed["R1"] + analysed["R2"]

Occurrences(q, x) == Cardinality({k \in 1..Len(q) : q[k] = x})

(* A caller runs analyze_sample on one record. *)
AnalyzeSample ==
    /\ acall = NoACall
    /\ TotalAnalysed < MaxAnalyses
    /\ \E rec \in AnalysisInputs :
       \E st \in {analyze_sample([pending |-> aPending, flushed |-> aFlushed,
                                  raised |-> FALSE], rec)} :
          /\ aPending' = st.pending
          /\ aFlushed' = st.flushed
          /\ analysed' = [analysed EXCEPT ![rec.sample_id] = @ + 1]
          /\ acall' = [kind |-> "sample", inputs |-> <<rec>>,
                       results |-> IF st.raised THEN <<>> ELSE <<ResultOf(rec)>>,
                       attempted |-> <<rec.sample_id>>, failed |-> <<st.raised>>,
                       raised |-> st.raised, before |-> AnalysisObjects]
    /\ UNCHANGED aCommitted
    /\ UNCHANGED <<nvars, ivars, pvars>>

(* A caller runs analyze_batch on a list of records (sample_ids and        *)
(* contents of equal length).                                              *)
AnalyzeBatch ==
    /\ acall = NoACall
    /\ \E recs \in SeqsUpTo(AnalysisInputs, MaxBatch) :
       \E acc \in {analyze_batch([st |-> [pending |-> aPending, flushed |-> aFlushed,
                                          raised |-> FALSE],
                                  results |-> <<>>, attempted |-> <<>>, failed |-> <<>>],
                                 recs)} :
          /\ TotalAnalysed + Len(recs) <= MaxAnalyses
          /\ aPending' = acc.st.pending
          /\ aFlushed' = acc.st.flushed
          /\ analysed' = [r \in SampleIds |-> analysed[r] + Occurrences(acc.attempted, r)]
          /\ acall' = [kind |-> "batch", inputs |-> recs, results |-> acc.results,
                       attempted |-> acc.attempted, failed |-> acc.failed,
                       raised |-> acc.st.raised, before |-> AnalysisObjects]
    /\ UNCHANGED aCommitted
    /\ UNCHANGED <<nvars, ivars, pvars>>

(* The caller has read the result of the call. *)
AReturn ==
    /\ acall # NoACall
    /\ acall' = NoACall
    /\ UNCHANGED <<aPending, aFlushed, aCommitted, analysed>>
    /\ UNCHANGED <<nvars, ivars, pvars>>

(* The caller commits the session: pending objects are flushed and kept.   *)
ACommit ==
    /\ acall = NoACall
    /\ aPending (+) aFlushed # EmptyBag
    /\ aCommitted' = aCommitted (+) aPending (+) aFlushed
    /\ aPending' = EmptyBag
    /\ aFlushed' = EmptyBag
    /\ UNCHANGED <<analysed, acall>>
    /\ UNCHANGED <<nvars, ivars, pvars>>

AnalysisNext == AnalyzeSample \/ AnalyzeBatch \/ AReturn \/ ACommit

-----------------------------------------------------------------------------
(* The normaliser applied once and then again to its own output.            *)

NormIdle ==
    /\ nText = <<>>
    /\ nOut = NoneText
    /\ nOut2 = NoneText
    /\ nPc = "idle"

NormInit ==
    /\ nText \in Texts \cup {NoneText}
    /\ nOut = NoneText
    /\ nOut2 = NoneText
    /\ nPc = "start"

Normalise ==
    /\ nPc = "start"
    /\ nOut' = _normalise_text(nText)
    /\ nPc' = "once"
    /\ UNCHANGED <<nText, nOut2>>
    /\ UNCHANGED <<ivars, avars, pvars>>

Renormalise ==
    /\ nPc = "once"
    /\ nOut2' = _normalise_text(nOut)
    /\ nPc' = "twice"
    /\ UNCHANGED <<nText, nOut>>
    /\ UNCHANGED <<ivars, avars, pvars>>

NormNext == Normalise \/ Renormalise

vars == <<nvars, ivars, avars, pvars>>

-----------------------------------------------------------------------------
(* nlp/theme_extractor.py.  A text is a sequence of words and whitespace   *)
(* characters; a term is a word or a pair of adjacent words (ngram_range   *)
(* (1, 2)) after the stop words are removed.  Relevance scores are kept as *)
(* "above the 0.01 threshold or not": a text is above it for a theme when  *)
(* it shares a vocabulary term with the theme's keywords.                  *)

EnglishStopWords == {"the", "in", "a", "was"}

CLIMATE_STOP_WORDS == {"climate", "new"}

ThemeOrder == <<"Energy and Heating", "Extreme Weather">>

PREDEFINED_THEMES ==
    ("Energy and Heating" :> <<"gas", "boiler", "bills">>)
    @@ ("Extreme Weather" :> <<"flooding", "flood", "storm">>)

(* if not text or not text.strip() *)
IsBlank(text) == \A k \in 1..Len(text) : text[k] \in Whitespace

IsWord(w) == w \notin Whitespace /\ LowerOf(w) \notin EnglishStopWords

RECURSIVE WordsOf(_)
WordsOf(text) ==
    IF text = <<>> THEN <<>>
    ELSE IF IsWord(text[1]) THEN <<LowerOf(text[1])>> \o WordsOf(Tail(text))
    ELSE WordsOf(Tail(text))

(* The terms the vectoriser's analyser yields for a document. *)
Terms(text) ==
    LET ws == WordsOf(text)
    IN {<<ws[k]>> : k \in 1..Len(ws)} \cup {<<ws[k], ws[k + 1]>> : k \in 1..(Len(ws) - 1)}

(* Alphabetical order of the words of the model. *)
WordOrder == <<"bills", "boiler", "flood", "flooding", "gas", "hello", "hits",
               "leeds", "storm">>

WordRank(w) ==
    IF \E k \in 1..Len(WordOrder) : WordOrder[k] = w
    THEN CHOOSE k \in 1..Len(WordOrder) : WordOrder[k] = w
    ELSE Len(WordOrder) + 1

(* Order of the terms as strings: a word before its bigrams. *)
TermLess(a, b) ==
    \/ WordRank(a[1]) < WordRank(b[1])
    \/ /\ a[1] = b[1]
       /\ \/ Len(a) < Len(b)
          \/ Len(a) = 2 /\ Len(b) = 2 /\ WordRank(a[2]) < WordRank(b[2])

(* get_feature_names_out(): the vocabulary in sorted order. *)
RECURSIVE SortedTerms(_)
SortedTerms(S) ==
    IF S = {} THEN <<>>
    ELSE LET m == CHOOSE t \in S : \A u \in S \ {t} : TermLess(t, u)
         IN <<m>> \o SortedTerms(S \ {m})

(* _prepare_theme_matcher: the vocabulary of the theme keyword documents. *)
_prepare_theme_matcher ==
    UNION {Terms(PREDEFINED_THEMES[ThemeOrder[k]]) : k \in 1..Len(ThemeOrder)}

(* ThemeExtractor.__init__ (AnalysisEngine.__init__ builds one): _tfidf is *)
(* not fitted and has no vocabulary, the theme matcher is fitted.          *)
EngineNew == [_tfidf |-> {}, _theme_tfidf |-> _prepare_theme_matcher]

_match_to_themes(eng, text) ==
    SelectSeq(ThemeOrder,
              LAMBDA th : Terms(text) \cap Terms(PREDEFINED_THEMES[th])
                              \cap eng._theme_tfidf # {})

extract_themes(eng, text) ==
    IF IsBlank(text) THEN <<>> ELSE _match_to_themes(eng, text)

(* Number of documents that contain a term. *)
DocFreq(t, docs) == Cardinality({k \in 1..Len(docs) : t \in Terms(docs[k])})

(* TfidfVectorizer(min_df=1, max_df=0.95).fit_transform(docs): ValueError  *)
(* when max_df * n_docs < min_df, when no document has a term, and when    *)
(* no term is left after the terms of more than max_df * n_docs documents  *)
(* are dropped.                                                            *)
fit_transform(docs) ==
    LET all == UNION {Terms(docs[k]) : k \in 1..Len(docs)}
        kept == {t \in all : 100 * DocFreq(t, docs) <= 95 * Len(docs)}
    IN IF 95 * Len(docs) < 100 \/ all = {} \/ kept = {}
       THEN [raised |-> "ValueError", vocabulary |-> {}]
       ELSE [raised |-> "None", vocabulary |-> kept]

(* The (index, text) pairs of the texts that are not blank. *)
ValidIndices(texts) == {k \in 1..Len(texts) : ~IsBlank(texts[k])}

RECURSIVE ValidTexts(_)
ValidTexts(texts) ==
    IF texts = <<>> THEN <<>>
    ELSE IF IsBlank(texts[1]) THEN ValidTexts(Tail(texts))
    ELSE <<texts[1]>> \o ValidTexts(Tail(texts))

RECURSIVE Flatten(_)
Flatten(terms) == IF terms = <<>> THEN <<>> ELSE terms[1] \o Flatten(Tail(terms))

(* The themes of a document of the batch: the direct matches, then the     *)
(* themes of its LDA topics.  The vocabulary of the model is smaller than  *)
(* the 15 top features a topic is described by, so every topic's keyword   *)
(* string holds all the feature names read back; the dominant topic of a   *)
(* document is taken to weigh enough for its themes to pass the threshold. *)
merge_themes(direct, topic) ==
    direct \o SelectSeq(topic, LAMBDA th : \A k \in 1..Len(direct) : direct[k] # th)

(* extract_themes_batch from line 265 on, for a call that fitted           *)
(* n_features terms and now reads feature_names back from self._tfidf.     *)
assemble_batch(eng, texts, n_features) ==
    LET feature_names == SortedTerms(eng._tfidf)
    IN IF Len(feature_names) < n_features
       THEN [raised |-> "IndexError", value |-> <<>>]
       ELSE LET topic == _match_to_themes(eng, Flatten(SubSeq(feature_names, 1, n_features)))
            IN [raised |-> "None",
                value |-> [k \in 1..Len(texts) |->
                             IF IsBlank(texts[k]) THEN <<>>
                             ELSE merge_themes(_match_to_themes(eng, texts[k]), topic)]]

top_n == 10

(* get_keywords: a fresh vectoriser on the sentences of the text; the      *)
(* ranking by summed score is kept as the order of the feature names.      *)
get_keywords(text) ==
    IF IsBlank(text) THEN <<>>
    ELSE LET names == SelectSeq(SortedTerms(Terms(text)),
                                LAMBDA t : Len(t) = 2 \/ t[1] \notin CLIMATE_STOP_WORDS)
         IN SubSeq(names, 1, Min(top_n, Len(names)))

tEmpty == <<>>
tSpaces == <<"SP", "TAB">>
tFlood == <<"flood", "SP", "gas">>
tGas == <<"gas", "SP", "boiler">>
tHello == <<"hello">>
tThe == <<"the">>

AnalysisTexts == {tEmpty, tSpaces, tFlood, tGas, tHello, tThe}

BatchPool == {<<>>, <<tEmpty, tSpaces>>, <<tSpaces, tFlood>>, <<tFlood, tGas>>,
              <<tFlood, tFlood>>, <<tEmpty, tFlood, tGas>>, <<tHello, tThe>>,
              <<tFlood, tGas, tHello>>}

(* The callers that share one engine. *)
Callers == {"c1", "c2"}

EngineInit ==
    /\ engine = EngineNew
    /\ pIn = [c \in Callers |-> <<>>]
    /\ pOut = [c \in Callers |-> <<>>]
    /\ pPc = [c \in Callers |-> "idle"]

Returns(c, op, arg, raised, value) ==
    /\ pIn' = [pIn EXCEPT ![c] = [op |-> op, arg |-> arg]]
    /\ pOut' = [pOut EXCEPT ![c] = [raised |-> raised, value |-> value]]
    /\ pPc' = [pPc EXCEPT ![c] = "returned"]

ExtractThemes(c) ==
    /\ pPc[c] = "idle"
    /\ \E text \in AnalysisTexts :
          Returns(c, "extract_themes", text, "None", extract_themes(engine, text))
    /\ UNCHANGED engine
    /\ UNCHANGED <<nvars, ivars, avars>>

GetKeywords(c) ==
    /\ pPc[c] = "idle"
    /\ \E text \in AnalysisTexts :
          Returns(c, "get_keywords", text, "None", get_keywords(text))
    /\ UNCHANGED engine
    /\ UNCHANGED <<nvars, ivars, avars>>

(* extract_themes_batch up to line 252: the early returns, or the fit of   *)
(* the vectoriser the instance holds.                                      *)
BatchFit(c) ==
    /\ pPc[c] = "idle"
    /\ \E texts \in BatchPool :
          IF texts = <<>>
          THEN Returns(c, "extract_themes_batch", texts, "None", <<>>) /\ UNCHANGED engine
          ELSE IF ValidIndices(texts) = {}
          THEN /\ Returns(c, "extract_themes_batch", texts, "None",
                          [k \in 1..Len(texts) |-> <<>>])
               /\ UNCHANGED engine
          ELSE \E fit \in {fit_transform(ValidTexts(texts))} :
                  IF fit.raised # "None"
                  THEN /\ Returns(c, "extract_themes_batch", texts, fit.raised, <<>>)
                       /\ UNCHANGED engine
                  ELSE /\ engine' = [engine EXCEPT !._tfidf = fit.vocabulary]
                       /\ pIn' = [pIn EXCEPT ![c] = [op |-> "extract_themes_batch",
                                                     arg |-> texts]]
                       /\ pOut' = [pOut EXCEPT ![c] =
                                      [n_features |-> Cardinality(fit.vocabulary)]]
                       /\ pPc' = [pPc EXCEPT ![c] = "fitted"]
    /\ UNCHANGED <<nvars, ivars, avars>>

(* extract_themes_batch from line 265: the feature names are read back     *)
(* from the instance's vectoriser and the results are assembled.           *)
BatchFinish(c) ==
    /\ pPc[c] = "fitted"
    /\ \E res \in {assemble_batch(engine, pIn[c].arg, pOut[c].n_features)} :
          /\ pOut' = [pOut EXCEPT ![c] = res]
          /\ pPc' = [pPc EXCEPT ![c] = "returned"]
    /\ UNCHANGED <<pIn, engine>>
    /\ UNCHANGED <<nvars, ivars, avars>>

(* The caller has its result and may call again. *)
EngineReturn(c) ==
    /\ pPc[c] = "returned"
    /\ pIn' = [pIn EXCEPT ![c] = <<>>]
    /\ pOut' = [pOut EXCEPT ![c] = <<>>]
    /\ pPc' = [pPc EXCEPT ![c] = "idle"]
    /\ UNCHANGED engine
    /\ UNCHANGED <<nvars, ivars, avars>>

-----------------------------------------------------------------------------
(* nlp/classifier.py.  Weights are in tenths, raw scores in units of       *)
(* 0.0001 (count ** 0.5 to three decimals), normalised scores in units of  *)
(* 0.0001 (round(x, 4)).                                                   *)

CATEGORIES == <<"PRACTICAL_ADAPTATION", "EMOTIONAL_RESPONSE", "POLICY_DISCUSSION",
                "COMMUNITY_ACTION", "DENIAL_DISMISSAL">>

(* Five of the keywords of CATEGORY_KEYWORDS, one per category. *)
CATEGORY_KEYWORDS ==
    [PRACTICAL_ADAPTATION |-> {[keyword |-> "installed", weight |-> 12]},
     EMOTIONAL_RESPONSE   |-> {[keyword |-> "worried", weight |-> 12]},
     POLICY_DISCUSSION    |-> {[keyword |-> "policy", weight |-> 13]},
     COMMUNITY_ACTION     |-> {[keyword |-> "community", weight |-> 10]},
     DENIAL_DISMISSAL     |-> {[keyword |-> "hoax", weight |-> 18]}]

(* count ** 0.5, in thousandths (rounded down). *)
Sqrt1000(count) ==
    CHOOSE r \in 0..(1000 * count) :
        r * r <= 1000000 * count /\ (r + 1) * (r + 1) > 1000000 * count

(* len(pat.findall(text)) for a single-word keyword: \b...\b, IGNORECASE. *)
CountMatches(keyword, text) ==
    Cardinality({k \in 1..Len(text) : LowerOf(text[k]) = keyword})

RECURSIVE SumWeights(_, _)
SumWeights(kws, text) ==
    IF kws = {} THEN 0
    ELSE LET kw == CHOOSE x \in kws : TRUE
             count == CountMatches(kw.keyword, text)
         IN (IF count > 0 THEN kw.weight * Sqrt1000(count) ELSE 0)
            + SumWeights(kws \ {kw}, text)

_score_text(text) ==
    [cat \in {CATEGORIES[k] : k \in 1..Len(CATEGORIES)} |->
        SumWeights(CATEGORY_KEYWORDS[cat], text)]

RECURSIVE SumScores(_, _)
SumScores(scores, k) ==
    IF k = 0 THEN 0 ELSE scores[CATEGORIES[k]] + SumScores(scores, k - 1)

(* num / den rounded to an integer, ties to even. *)
RoundDiv(num, den) ==
    LET q == num \div den
        r == num % den
    IN IF 2 * r < den THEN q
       ELSE IF 2 * r > den THEN q + 1
       ELSE IF q % 2 = 0 THEN q ELSE q + 1

(* round(num / den, 4) in units of 0.0001. *)
Round4(num, den) == RoundDiv(num * 10000, den)

(* A bug the distribution must notice: all-zero totals are not spread. *)
_normalise_unguarded(scores) ==
    LET total == SumScores(scores, Len(CATEGORIES))
    IN IF total = 0 THEN scores
       ELSE [cat \in DOMAIN scores |-> Round4(scores[cat], total)]

_normalise(scores) ==
    LET total == SumScores(scores, Len(CATEGORIES))
    IN IF total = 0
       THEN [cat \in DOMAIN scores |-> Round4(1, Cardinality(DOMAIN scores))]
       ELSE [cat \in DOMAIN scores |-> Round4(scores[cat], total)]

(* max(normalised, key=normalised.get): the first key, in insertion order, *)
(* of maximal value.                                                       *)
FirstMax(normalised) ==
    CATEGORIES[CHOOSE k \in 1..Len(CATEGORIES) :
        /\ \A j \in 1..Len(CATEGORIES) : normalised[CATEGORIES[j]] <= normalised[CATEGORIES[k]]
        /\ \A j \in 1..(k - 1) : normalised[CATEGORIES[j]] < normalised[CATEGORIES[k]]]

(* A bug the choice of the category must notice: the last of the maximal   *)
(* categories is taken.                                                    *)
classify_last_max(text) ==
    LET normalised == _normalise(_score_text(text))
        best == CATEGORIES[CHOOSE k \in 1..Len(CATEGORIES) :
                   /\ \A j \in 1..Len(CATEGORIES) :
                         normalised[CATEGORIES[j]] <= normalised[CATEGORIES[k]]
                   /\ \A j \in (k + 1)..Len(CATEGORIES) :
                         normalised[CATEGORIES[j]] < normalised[CATEGORIES[k]]]
    IN [classification_type |-> best, confidence |-> normalised[best],
        all_scores |-> normalised]

classify(text) ==
    IF IsBlank(text)
    THEN [classification_type |-> CATEGORIES[1],
          confidence |-> Round4(1, Len(CATEGORIES)),
          all_scores |-> _normalise([cat \in {CATEGORIES[k] : k \in 1..Len(CATEGORIES)} |-> 0])]
    ELSE LET normalised == _normalise(_score_text(text))
             best_category == FirstMax(normalised)
         IN [classification_type |-> best_category,
             confidence |-> normalised[best_category],
             all_scores |-> normalised]

ClassifyWords == {"SP", "Installed", "worried", "policy", "community", "hoax", "hello"}

ClassifyInit ==
    /\ pIn \in SeqsUpTo(ClassifyWords, MaxWords)
    /\ pOut = <<>>
    /\ pPc = "classify"
    /\ engine = EngineNew

Classify ==
    /\ pPc = "classify"
    /\ pOut' = classify(pIn)
    /\ pPc' = "classified"
    /\ UNCHANGED <<pIn, engine>>
    /\ UNCHANGED <<nvars, ivars, avars>>

ClassifyNext == Classify

-----------------------------------------------------------------------------
(* nlp/sentiment.py.  VADER's polarity scores are an input of the model:   *)
(* compound in [-1, 1] and neu in [0, 1], both in hundredths.  Lexicon     *)
(* modifiers are in hundredths; the results are in units of 0.0001.        *)

CLIMATE_NEGATIVE_LEXICON == [flooding |-> -15, flood |-> -15, disaster |-> -20]

CLIMATE_POSITIVE_LEXICON == [renewable |-> 12, hopeful |-> 10]

Clamp(lo, x, hi) == Max(lo, Min(hi, x))

RECURSIVE SumModifiers(_)
SumModifiers(text) ==
    IF text = <<>> THEN 0
    ELSE (IF LowerOf(text[1]) \in DOMAIN CLIMATE_NEGATIVE_LEXICON
          THEN CLIMATE_NEGATIVE_LEXICON[LowerOf(text[1])]
          ELSE IF LowerOf(text[1]) \in DOMAIN CLIMATE_POSITIVE_LEXICON
          THEN CLIMATE_POSITIVE_LEXICON[LowerOf(text[1])]
          ELSE 0)
         + SumModifiers(Tail(text))

(* Every match of a single-word term adds its modifier (matches of         *)
(* different words never overlap); the total is clamped to [-0.5, 0.5].    *)
_compute_climate_adjustment(text) == Clamp(-50, SumModifiers(text), 50)

(* In units of 0.0001.  The product of polarity (hundredths), agreement    *)
(* (tenths) and neutral penalty (thousandths) is in units of 0.000001.     *)
_compute_confidence(vader_scores, adjustment) ==
    LET compound == vader_scores.compound
        polarity_strength == IF compound < 0 THEN -compound ELSE compound
        agreement == IF compound # 0 /\ adjustment # 0
                     THEN (IF (compound > 0) = (adjustment > 0) THEN 10 ELSE 8)
                     ELSE 9
        neutral_penalty == 1000 - 3 * vader_scores.neu
        raw_confidence == polarity_strength * agreement * neutral_penalty
    IN RoundDiv(Clamp(300000, raw_confidence + 300000, 1000000), 100)

_label_from_score(score) ==
    IF score < -6000 THEN "VERY_NEGATIVE"
    ELSE IF score < -2000 THEN "NEGATIVE"
    ELSE IF score <= 2000 THEN "NEUTRAL"
    ELSE IF score <= 6000 THEN "POSITIVE"
    ELSE "VERY_POSITIVE"

(* A bug the bounds must notice: the sum is not clamped. *)
analyze_unclamped(text, vader_scores) ==
    LET adjusted == 100 * (vader_scores.compound + _compute_climate_adjustment(text))
    IN [overall_sentiment |-> adjusted,
        sentiment_label |-> _label_from_score(adjusted),
        confidence |-> _compute_confidence(vader_scores, _compute_climate_adjustment(text))]

(* analyze, with the result of self._vader.polarity_scores(text). *)
analyze(text, vader_scores) ==
    IF IsBlank(text)
    THEN [overall_sentiment |-> 0, sentiment_label |-> "NEUTRAL", confidence |-> 3000]
    ELSE LET climate_adj == _compute_climate_adjustment(text)
             adjusted == 100 * Clamp(-100, vader_scores.compound + climate_adj, 100)
         IN [overall_sentiment |-> adjusted,
             sentiment_label |-> _label_from_score(adjusted),
             confidence |-> _compute_confidence(vader_scores, climate_adj)]

SentimentWords == {"SP", "disaster", "Flooding", "renewable", "hello"}

(* Polarity scores over their whole ranges, in steps. *)
VaderScores ==
    [compound : {c \in -100..100 : c % 25 = 0} \cup {-1, 1},
     neu : {0, 50, 100}]

SentimentInit ==
    /\ pIn \in [text : SeqsUpTo(SentimentWords, MaxWords), vader_scores : VaderScores]
    /\ pOut = <<>>
    /\ pPc = "analyze"
    /\ engine = EngineNew

Analyze ==
    /\ pPc = "analyze"
    /\ pOut' = analyze(pIn.text, pIn.vader_scores)
    /\ pPc' = "analyzed"
    /\ UNCHANGED <<pIn, engine>>
    /\ UNCHANGED <<nvars, ivars, avars>>

SentimentNext == Analyze

-----------------------------------------------------------------------------
(* nlp/geographic.py, on a gazetteer of three places.                      *)

GeoLocations ==
    [Leeds |-> "Yorkshire and the Humber", Reading |-> "South East",
     York |-> "Yorkshire and the Humber"]

(* The names in sorted order. *)
GeoNameOrder == <<"Leeds", "Reading", "York">>

AMBIGUOUS_NAMES == {"Reading", "York"}

(* The prepositions of _LOCATION_CONTEXT_RE the model uses. *)
_LOCATION_CONTEXT_RE == {"in", "at", "to"}

(* The words that may follow "reading" in _READING_VERB_RE. *)
_READING_VERB_RE == {"a", "the", "about"}

(* matched_text[0].islower() *)
InitialIsLower(w) == w = LowerOf(w) /\ w \notin Whitespace \cup {"DOT"}

(* The first position after i that is not whitespace (\s+ is skipped);     *)
(* Len(text) + 1 if there is none.                                         *)
RECURSIVE SkipSpace(_, _)
SkipSpace(text, i) ==
    IF i > Len(text) THEN i
    ELSE IF text[i] \in Whitespace THEN SkipSpace(text, i + 1) ELSE i

(* _READING_VERB_RE.search(surrounding): "reading", whitespace and a       *)
(* trigger word, inside the characters from 5 before to 40 after the match.*)
ReadingVerbNear(text, i) ==
    LET start == Max(0, TokStart(text, i) - 5)
        end   == Min(TokEnd(text, Len(text)), TokEnd(text, i) + 40)
    IN \E j \in 1..Len(text) :
          /\ LowerOf(text[j]) = "reading"
          /\ TokStart(text, j) >= start
          /\ j + 1 <= Len(text) /\ text[j + 1] \in Whitespace
          /\ SkipSpace(text, j + 1) <= Len(text)
          /\ LowerOf(text[SkipSpace(text, j + 1)]) \in _READING_VERB_RE
          /\ TokEnd(text, SkipSpace(text, j + 1)) <= end

(* _LOCATION_CONTEXT_RE.search(preceding_text): a preposition followed by  *)
(* whitespace in the 20 characters before the match.                       *)
PrepositionBefore(text, i) ==
    \E j \in 1..(i - 2) :
        /\ LowerOf(text[j]) \in _LOCATION_CONTEXT_RE
        /\ text[j + 1] \in Whitespace
        /\ TokStart(text, j) >= Max(0, TokStart(text, i) - 20)

(* The last position before i that is not a space; 0 if there is none. *)
RECURSIVE SkipBack(_, _)
SkipBack(text, i) ==
    IF i < 1 THEN 0 ELSE IF text[i] = "SP" THEN SkipBack(text, i - 1) ELSE i

_is_false_positive(name, text, i) ==
    IF name = "Reading" /\ (ReadingVerbNear(text, i) \/ InitialIsLower(text[i]))
    THEN TRUE
    ELSE IF name \in AMBIGUOUS_NAMES
    THEN IF PrepositionBefore(text, i) THEN FALSE
         ELSE IF TokStart(text, i) = 0 THEN TRUE
         ELSE IF SkipBack(text, i - 1) >= 1 /\ text[SkipBack(text, i - 1)] = "DOT" THEN TRUE
         ELSE InitialIsLower(text[i])
    ELSE FALSE

(* The matches of the pattern of a name that are kept. *)
AcceptedMatches(name, text) ==
    {i \in 1..Len(text) : LowerOf(text[i]) = LowerOf(name)
                          /\ ~_is_false_positive(name, text, i)}

extract_locations(text) ==
    IF IsBlank(text) THEN <<>>
    ELSE LET found == SelectSeq(GeoNameOrder, LAMBDA name : AcceptedMatches(name, text) # {})
         IN [k \in 1..Len(found) |-> [name |-> found[k], region |-> GeoLocations[found[k]]]]

(* A word longer than every context window of the matchers. *)
LongWord == "xxxxxxxxxxxxxxxxxxxxxxxxxxxxxxxxxxxxxxxxxxxxxxxxxxxxxxxxxxxxxxxxxxxxxxxxxxxxxxxxx"

GeoWords == {"Reading", "reading", "York", "New", "Leeds", "LEEDS", "in", "a", "least",
             "town", "DOT", LongWord}

RECURSIVE JoinWords(_, _)
JoinWords(ws, sep) ==
    IF ws = <<>> THEN <<>>
    ELSE IF Len(ws) = 1 THEN ws
    ELSE <<ws[1]>> \o sep \o JoinWords(Tail(ws), sep)

(* Words separated by one space or by two. *)
GeoTexts ==
    {JoinWords(ws, sep) : ws \in SeqsUpTo(GeoWords, MaxGeoWords),
                          sep \in {<<"SP">>, <<"SP", "SP">>}}

LocationsInit ==
    /\ pIn \in GeoTexts
    /\ pOut = <<>>
    /\ pPc = "locate"
    /\ engine = EngineNew

FindLocations ==
    /\ pPc = "locate"
    /\ pOut' = find_locations(pIn)
    /\ pPc' = "find_locations"
    /\ UNCHANGED <<pIn, engine>>
    /\ UNCHANGED <<nvars, ivars, avars>>

ExtractLocations ==
    /\ pPc = "locate"
    /\ pOut' = extract_locations(pIn)
    /\ pPc' = "extract_locations"
    /\ UNCHANGED <<pIn, engine>>
    /\ UNCHANGED <<nvars, ivars, avars>>

LocationsNext == FindLocations \/ ExtractLocations

-----------------------------------------------------------------------------
(* The other analysers of the engine, called by the callers that share it. *)

EngineAnalyze(c) ==
    /\ pPc[c] = "idle"
    /\ \E text \in AnalysisTexts :
       \E vader_scores \in {[compound |-> 0, neu |-> 100], [compound |-> -50, neu |-> 50]} :
          Returns(c, "analyze", text, "None", analyze(text, vader_scores))
    /\ UNCHANGED engine
    /\ UNCHANGED <<nvars, ivars, avars>>

EngineClassify(c) ==
    /\ pPc[c] = "idle"
    /\ \E text \in AnalysisTexts :
          Returns(c, "classify", text, "None", classify(text))
    /\ UNCHANGED engine
    /\ UNCHANGED <<nvars, ivars, avars>>

EngineExtractLocations(c) ==
    /\ pPc[c] = "idle"
    /\ \E text \in AnalysisTexts :
          Returns(c, "extract_locations", text, "None", extract_locations(text))
    /\ UNCHANGED engine
    /\ UNCHANGED <<nvars, ivars, avars>>

-----------------------------------------------------------------------------
(* _resolve_location called on any hints, body and location cache.         *)

cE == <<"Reading", "SP", "town", "SP", "Leeds">>

HintPool == {"Narnia", "LEEDS", "York", "Reading"}

(* The primary key of the location row of a lower-cased name. *)
LocationIdOf(n) ==
    CASE n = "leeds" -> "L1" [] n = "york" -> "L2" [] n = "reading" -> "L3"

ResolveCaches == {[n \in S |-> LocationIdOf(n)] : S \in SUBSET {"leeds", "york", "reading"}}

ResolveInit ==
    /\ pIn \in [location_hints : SeqsUpTo(HintPool, MaxHints),
                normalised_content : {_normalise_text(c) : c \in {cA, cA2, cB, cD, cE}},
                location_cache : ResolveCaches]
    /\ pOut = <<>>
    /\ pPc = "called"
    /\ engine = EngineNew

(* The call returns; scanned tells whether line 159 (find_locations on the *)
(* body) was reached, that is, whether no hint returned first.             *)
Resolve ==
    /\ pPc = "called"
    /\ pOut' = [location_id |-> _resolve_location(pIn, pIn.normalised_content,
                                                  pIn.location_cache),
                scanned |-> first_in_cache([k \in 1..Len(pIn.location_hints) |->
                                               LowerOf(pIn.location_hints[k])],
                                           pIn.location_cache) = NoLocation]
    /\ pPc' = "returned"
    /\ UNCHANGED <<pIn, engine>>
    /\ UNCHANGED <<nvars, ivars, avars>>

ResolveNext == Resolve

(* No function is being called on its own. *)
PureIdle == pIn = <<>> /\ pOut = <<>> /\ pPc = "idle" /\ engine = EngineNew

InitNorm == NormInit /\ IngestInit /\ AnalysisIdle /\ PureIdle

SpecNorm == InitNorm /\ [][NormNext]_vars

InitIngest == IngestInit /\ NormIdle /\ AnalysisIdle /\ PureIdle

SpecIngest == InitIngest /\ [][IngestNext]_vars

InitResolve == ResolveInit /\ NormIdle /\ IngestInit /\ AnalysisIdle

SpecResolve == InitResolve /\ [][ResolveNext]_vars

EngineNext ==
    \E c \in Callers :
        \/ ExtractThemes(c)
        \/ GetKeywords(c)
        \/ BatchFit(c)
        \/ BatchFinish(c)
        \/ EngineAnalyze(c)
        \/ EngineClassify(c)
        \/ EngineExtractLocations(c)
        \/ EngineReturn(c)

InitEngine == EngineInit /\ NormIdle /\ IngestInit /\ AnalysisIdle

SpecEngine == InitEngine /\ [][EngineNext]_vars

InitClassify == ClassifyInit /\ NormIdle /\ IngestInit /\ AnalysisIdle

SpecClassify == InitClassify /\ [][ClassifyNext]_vars

InitSentiment == SentimentInit /\ NormIdle /\ IngestInit /\ AnalysisIdle

SpecSentiment == InitSentiment /\ [][SentimentNext]_vars

InitLocations == LocationsInit /\ NormIdle /\ IngestInit /\ AnalysisIdle

SpecLocations == InitLocations /\ [][LocationsNext]_vars

InitAnalysis == AnalysisInit /\ NormIdle /\ IngestInit /\ PureIdle

SpecAnalysis == InitAnalysis /\ [][AnalysisNext]_vars

-----------------------------------------------------------------------------
(* nlp/analyzer.py, get_aggregated_insights.  The sample_themes table is   *)
(* given per theme as the number of assignments whose sample is older than *)
(* the 30-day cutoff ("old") and the number inside the window ("recent");  *)
(* "order" is the order in which the GROUP BY query returns the themes.    *)
(* Shares are exact fractions, trend scores are in units of 0.0001.        *)

MaxThemes == 3

ThemeNamePool == <<"Flooding", "Energy", "Transport", "Farming", "Housing">>

ThemeNames == {ThemeNamePool[k] : k \in 1..MaxThemes}

OldCounts == {0, 100}

RecentCounts == {0, 1, 5}

TrendingLimit == 20

InsightModels ==
    {"SentimentAnalysis", "DiscourseClassification", "SampleTheme", "Theme",
     "SampleLocation", "DataSample"}

RECURSIVE SumOver(_, _)
SumOver(f, S) ==
    IF S = {} THEN 0
    ELSE LET x == CHOOSE y \in S : TRUE IN f[x] + SumOver(f, S \ {x})

(* scalar() or 1 *)
OrOne(n) == IF n = 0 THEN 1 ELSE n

(* list.sort(key=trend_score, reverse=True): stable, descending. *)
InsertDesc(sorted, row) ==
    LET before == SelectSeq(sorted, LAMBDA r : r.trend_score >= row.trend_score)
        after  == SelectSeq(sorted, LAMBDA r : r.trend_score < row.trend_score)
    IN before \o <<row>> \o after

RECURSIVE SortDesc(_)
SortDesc(rows) ==
    IF rows = <<>> THEN <<>>
    ELSE InsertDesc(SortDesc(SubSeq(rows, 1, Len(rows) - 1)), rows[Len(rows)])

(* A GROUP BY result as a dict: one entry per key that has rows. *)
GroupCounts(counts) ==
    [key \in {k \in DOMAIN counts : counts[k] > 0} |-> [count |-> counts[key]]]

(* _aggregate_sentiment: count per label (the average score is left out);  *)
(* {} when the query raises.                                               *)
_aggregate_sentiment(table) ==
    IF "sentiment" \in table.fails THEN <<>> ELSE GroupCounts(table.sentiment)

(* ORDER BY count DESC over the rows in the order the database yields them. *)
InsertByCount(sorted, row) ==
    LET before == SelectSeq(sorted, LAMBDA r : r.count >= row.count)
        after  == SelectSeq(sorted, LAMBDA r : r.count < row.count)
    IN before \o <<row>> \o after

RECURSIVE OrderByCount(_)
OrderByCount(rows) ==
    IF rows = <<>> THEN <<>>
    ELSE InsertByCount(OrderByCount(SubSeq(rows, 1, Len(rows) - 1)), rows[Len(rows)])

(* _aggregate_themes: the date filter is computed and not applied. *)
_aggregate_themes(table) ==
    IF "themes" \in table.fails THEN <<>>
    ELSE LET names == SelectSeq(table.order, LAMBDA n : table.old[n] + table.recent[n] > 0)
         IN OrderByCount([k \in 1..Len(names) |->
                [theme |-> names[k], count |-> table.old[names[k]] + table.recent[names[k]]]])

_aggregate_geography(table) ==
    IF "geography" \in table.fails THEN <<>>
    ELSE [region \in {r \in DOMAIN table.geography : table.geography[r] > 0} |->
             table.geography[region]]

_aggregate_discourse(table) ==
    IF "discourse" \in table.fails THEN <<>> ELSE GroupCounts(table.discourse)

_compute_trending_themes(table) ==
    LET total_all    == OrOne(SumOver([n \in ThemeNames |-> table.old[n] + table.recent[n]], ThemeNames))
        total_recent == OrOne(SumOver(table.recent, ThemeNames))
        recent_rows  == SelectSeq(table.order, LAMBDA n : table.recent[n] > 0)
        trending     ==
            [k \in 1..Len(recent_rows) |->
                LET n == recent_rows[k]
                    historical_count == table.old[n] + table.recent[n]
                IN [theme |-> n,
                    recent_count |-> table.recent[n],
                    historical_count |-> historical_count,
                    trend_score |->
                        Round4(table.recent[n] * total_all - historical_count * total_recent,
                               total_recent * total_all)]]
        sorted       == SortDesc(trending)
    IN IF "trending" \in table.fails THEN <<>>
       ELSE SubSeq(sorted, 1, Min(TrendingLimit, Len(sorted)))

EmptyInsights ==
    [sentiment_distribution |-> <<>>, theme_frequency |-> <<>>,
     geographic_distribution |-> <<>>, discourse_distribution |-> <<>>,
     trending_themes |-> <<>>]

(* The late import comes first: when a model class is missing the empty    *)
(* insights are returned and no query is made.  Each aggregate contains    *)
(* its own exceptions.                                                     *)
get_aggregated_insights(table) ==
    IF ~CanImport(InsightModels)
    THEN EmptyInsights
    ELSE [sentiment_distribution |-> _aggregate_sentiment(table),
          theme_frequency |-> _aggregate_themes(table),
          geographic_distribution |-> _aggregate_geography(table),
          discourse_distribution |-> _aggregate_discourse(table),
          trending_themes |-> _compute_trending_themes(table)]

Orders == {q \in [1..MaxThemes -> ThemeNames] : \A j, k \in 1..MaxThemes : q[j] = q[k] => j = k}

SentimentLabels == {"positive", "negative"}

InsightRegions == {"London"}

DiscourseTypes == {"POLICY_ADVOCACY"}

Aggregates == {"sentiment", "themes", "geography", "discourse", "trending"}

(* The tables that only vary the theme assignments. *)
ThemeTables ==
    [order : Orders, old : [ThemeNames -> OldCounts], recent : [ThemeNames -> RecentCounts],
     sentiment : {[l \in SentimentLabels |-> 0]}, geography : {[r \in InsightRegions |-> 0]},
     discourse : {[t \in DiscourseTypes |-> 0]}, fails : {{}}]

(* The tables that vary every aggregate and the query that raises. *)
MixedTables ==
    [order : {[k \in 1..MaxThemes |-> ThemeNamePool[k]]},
     old : {[n \in ThemeNames |-> 0]}, recent : [ThemeNames -> {0, 5}],
     sentiment : [SentimentLabels -> {0, 2}], geography : [InsightRegions -> {0, 3}],
     discourse : [DiscourseTypes -> {0, 1}],
     fails : {{}} \cup {{a} : a \in Aggregates}]

InsightsInit ==
    /\ pIn \in ThemeTables \cup MixedTables
    /\ pOut = <<>>
    /\ pPc = "insights"
    /\ engine = EngineNew

GetAggregatedInsights ==
    /\ pPc = "insights"
    /\ pOut' = get_aggregated_insights(pIn)
    /\ pPc' = "insights_done"
    /\ UNCHANGED <<pIn, engine, nvars, ivars, avars>>

InsightsNext == GetAggregatedInsights

InitInsights == InsightsInit /\ NormIdle /\ IngestInit /\ AnalysisIdle

SpecInsights == InitInsights /\ [][InsightsNext]_vars

-----------------------------------------------------------------------------
(* nlp/analyzer.py, _store_themes called directly, by one session twice    *)
(* (with session.flush() after each call) or by two sessions at once.  A   *)
(* writer is a coroutine with its own session; it can be suspended at the  *)
(* awaits of _store_themes: the SELECT of line 293 and the flush of 302.   *)
(* pOut[w] is the writer's session and its position:                       *)
(*   ready    - about to call _store_themes (left calls remain)            *)
(*   select   - inside the loop, about to look the head of todo up         *)
(*   insert   - the theme was seen absent, about to add and flush it       *)
(*   returned - the call returned, the caller's session.flush() is next    *)
(*   raised   - the call raised                                            *)
(*   done     - nothing left to do                                         *)

Writers == {"w1", "w2"}

ThemeLists == {<<"Flooding">>, <<"Flooding", "Energy">>}

EarlierPending == [cls |-> "SentimentAnalysis", sample_id |-> "R1", value |-> "NEGATIVE"]

EarlierFlushed == [cls |-> "DiscourseSample", sample_id |-> "R1", value |-> "text"]

ThemeRow(theme_name) == [cls |-> "Theme", sample_id |-> "None", value |-> theme_name]

LinkRow(sample_id, theme_name) == [cls |-> "SampleTheme", sample_id |-> sample_id, value |-> theme_name]

(* The unique constraint of themes.name (models.py:209) against the rows   *)
(* every session has written.                                              *)
NameTaken(sessions, theme_name) ==
    \/ BagIn(ThemeRow(theme_name), aCommitted)
    \/ \E w \in Writers : BagIn(ThemeRow(theme_name), sessions[w].st.flushed)

(* The code that follows a look-up that found the theme, or a successful   *)
(* insert: the link is added and the loop goes on.                         *)
link_and_continue(wr) ==
    LET st1 == AddObject(wr.st, LinkRow(wr.sample_id, wr.todo[1]))
    IN [wr EXCEPT !.st = st1, !.todo = Tail(wr.todo),
                  !.pc = IF Tail(wr.todo) = <<>> THEN "returned" ELSE "select"]

(* The step a writer takes from its position to its next await or return.  *)
store_themes_step(sessions, w) ==
    LET wr == sessions[w]
    IN CASE wr.pc = "ready" ->
              IF ~CanImport({"Theme", "SampleTheme"})
              THEN [wr EXCEPT !.pc = "returned", !.left = @ - 1]
              ELSE IF wr.themes = <<>>
              THEN [wr EXCEPT !.pc = "returned", !.left = @ - 1]
              ELSE [wr EXCEPT !.pc = "select", !.left = @ - 1, !.todo = wr.themes]
         [] wr.pc = "select" ->
              LET autoflushed == [wr EXCEPT !.st = Flush(wr.st)]
              IN IF ThemeRows(autoflushed.st, wr.todo[1]) # {}
                 THEN link_and_continue(autoflushed)
                 ELSE [autoflushed EXCEPT !.pc = "insert"]
         [] wr.pc = "insert" ->
              IF NameTaken(sessions, wr.todo[1])
              THEN [wr EXCEPT !.pc = "raised", !.st = Raise(wr.st), !.conflict = TRUE]
              ELSE link_and_continue(
                      [wr EXCEPT !.st = Flush(AddObject(wr.st, ThemeRow(wr.todo[1]))),
                                 !.created = @ (+) SetToBag({wr.todo[1]})])
         [] OTHER -> wr

WriterInit(themes, sample_id, calls, pend0, flushed0) ==
    [st |-> [pending |-> pend0, flushed |-> flushed0, raised |-> FALSE],
     themes |-> themes, sample_id |-> sample_id, left |-> calls, todo |-> <<>>,
     pc |-> IF calls = 0 THEN "done" ELSE "ready",
     conflict |-> FALSE, created |-> EmptyBag, rolled_back |-> FALSE]

MaxCalls == 2

ThemesInit ==
    /\ \E t1, t2 \in ThemeLists, c1 \in 1..MaxCalls, c2 \in 0..MaxCalls, r2 \in SampleIds,
          pend \in {EmptyBag, SetToBag({EarlierPending})},
          flu \in {EmptyBag, SetToBag({EarlierFlushed})} :
          /\ pIn = [w1 |-> WriterInit(t1, "R1", c1, pend, flu),
                    w2 |-> WriterInit(t2, r2, c2, EmptyBag, EmptyBag)]
          /\ pOut = pIn
    /\ pPc = "themes"
    /\ engine = EngineNew

(* A writer runs _store_themes up to its next await. *)
StoreThemes(w) ==
    /\ pPc = "themes"
    /\ pOut[w].pc \in {"ready", "select", "insert"}
    /\ pOut' = [pOut EXCEPT ![w] = store_themes_step(pOut, w)]
    /\ UNCHANGED <<pIn, pPc, engine, nvars, ivars, avars>>

(* The caller's session.flush() after a call that returned. *)
SessionFlush(w) ==
    /\ pPc = "themes"
    /\ pOut[w].pc = "returned"
    /\ pOut' = [pOut EXCEPT ![w].st = Flush(@),
                            ![w].pc = IF pOut[w].left = 0 THEN "done" ELSE "ready"]
    /\ UNCHANGED <<pIn, pPc, engine, nvars, ivars, avars>>

ThemesNext == \E w \in Writers : StoreThemes(w) \/ SessionFlush(w)

InitThemes == ThemesInit /\ NormIdle /\ IngestInit /\ AnalysisIdle

SpecThemes == InitThemes /\ [][ThemesNext]_vars

-----------------------------------------------------------------------------
(* collectors/scheduler.py, run_collection_job.  pOut is                   *)
(*   [job: the CollectionJob object, row: the status of its row in the     *)
(*    open transaction ("absent" when there is none), stats, raised].      *)
(* The coroutine is observed at its awaits: after the first flush          *)
(* (PENDING), after the second (RUNNING), after the try statement, and     *)
(* when it has returned or raised.                                         *)

_COLLECTOR_REGISTRY ==
    [news_bbc |-> "BBCNewsCollector", news_guardian |-> "GuardianCollector",
     reddit |-> "RedditCollector", NEWS |-> "BBCNewsCollector", REDDIT |-> "RedditCollector"]

CollectorTypes == {"NEWS", "REDDIT", "news_guardian", "rss"}

SourceNames == {"bbc", "guardian"}

(* _get_collector: the class, or the ValueError of an unknown type. *)
_get_collector(collector_type, source_name) ==
    IF collector_type \notin DOMAIN _COLLECTOR_REGISTRY THEN "ValueError"
    ELSE IF _COLLECTOR_REGISTRY[collector_type] = "BBCNewsCollector" /\ source_name = "guardian"
    THEN "GuardianCollector"
    ELSE _COLLECTOR_REGISTRY[collector_type]

NoJob == [status |-> "None", items_collected |-> 0, started_at |-> FALSE,
          completed_at |-> FALSE, error_message |-> "None"]

(* Step 5b, the except branch. *)
job_failed(job, exc) ==
    [job EXCEPT !.status = "FAILED", !.completed_at = TRUE, !.error_message = exc]

(* The statistics of pipeline.ingest_items on a session that holds the job *)
(* row, and whether _batch_insert rolled the transaction back (it does on  *)
(* the first fault of a batch), which undoes the INSERT of the job row and *)
(* expunges the job from the session.                                      *)
job_ingest(items, source_id) ==
    LET acc == ingest_loop([existing_hashes |-> _load_existing_hashes(Visible, source_id),
                            duplicates |-> 0, harvested |-> <<>>, new_samples |-> <<>>],
                           items, source_id, <<>>)
        st  == _batch_insert([flushed |-> EmptyBag, raised |-> FALSE], acc.new_samples, BatchSize)
    IN [stats |-> [total |-> Len(items), new |-> Len(acc.new_samples),
                   duplicates |-> acc.duplicates],
        rolled_back |-> first_fault(acc.new_samples) # "none",
        persisted |-> BagCardinality(st.flushed)]

(* A bug the job's outcome must notice: the body is not guarded, an error  *)
(* leaves the job RUNNING and the exception propagates.                    *)
run_job_unguarded(job, inp) ==
    IF _get_collector(inp.collector_type, inp.source_name) = "ValueError"
    THEN [job |-> job, expunged |-> FALSE, raised |-> TRUE, new |-> 0]
    ELSE IF inp.collect_raises
    THEN [job |-> job, expunged |-> FALSE, raised |-> TRUE, new |-> 0]
    ELSE IF inp.ingest_raises
    THEN [job |-> job, expunged |-> FALSE, raised |-> TRUE, new |-> 0]
    ELSE LET r == job_ingest(inp.items, "S1")
         IN [job |-> [job EXCEPT !.status = "COMPLETED", !.completed_at = TRUE,
                                 !.items_collected = r.stats.new],
             expunged |-> r.rolled_back, raised |-> FALSE, new |-> r.stats.new]

(* The try statement of lines 171-205. *)
run_job(job, inp) ==
    IF _get_collector(inp.collector_type, inp.source_name) = "ValueError"
    THEN [job |-> job_failed(job, "ValueError"), expunged |-> FALSE, raised |-> FALSE, new |-> 0]
    ELSE IF inp.collect_raises
    THEN [job |-> job_failed(job, "CollectError"), expunged |-> FALSE, raised |-> FALSE, new |-> 0]
    ELSE IF inp.ingest_raises
    THEN [job |-> job_failed(job, "IngestError"), expunged |-> FALSE, raised |-> FALSE, new |-> 0]
    ELSE LET r == job_ingest(inp.items, "S1")
         IN [job |-> [job EXCEPT !.status = "COMPLETED", !.completed_at = TRUE,
                                 !.items_collected = r.stats.new],
             expunged |-> r.rolled_back, raised |-> FALSE, new |-> r.stats.new]

JobInputs ==
    [source_found : BOOLEAN, source_name : SourceNames, collector_type : CollectorTypes,
     collect_raises : BOOLEAN, ingest_raises : BOOLEAN, final_flush_raises : BOOLEAN,
     items : ItemLists]

SchedulerInit ==
    /\ pIn \in JobInputs
    /\ pOut = [job |-> NoJob, row |-> "absent", expunged |-> FALSE, raised |-> FALSE, new |-> 0]
    /\ pPc = "job_new"
    /\ engine = EngineNew

(* db.get(Source), then step 1: the job is created PENDING and flushed. *)
JobCreate ==
    /\ pPc = "job_new"
    /\ IF ~pIn.source_found
       THEN /\ pOut' = [pOut EXCEPT !.raised = TRUE]
            /\ pPc' = "job_raised"
       ELSE /\ pOut' = [pOut EXCEPT !.job = [NoJob EXCEPT !.status = "PENDING"],
                                    !.row = "PENDING"]
            /\ pPc' = "job_pending"
    /\ UNCHANGED <<pIn, engine, nvars, ivars, avars>>

(* Step 2: RUNNING, flushed. *)
JobStart ==
    /\ pPc = "job_pending"
    /\ pOut' = [pOut EXCEPT !.job = [@ EXCEPT !.status = "RUNNING", !.started_at = TRUE],
                            !.row = "RUNNING"]
    /\ pPc' = "job_running"
    /\ UNCHANGED <<pIn, engine, nvars, ivars, avars>>

(* Steps 3 to 5: collector, collection, ingestion, final status. *)
JobRun ==
    /\ pPc = "job_running"
    /\ \E r \in {run_job(pOut.job, pIn)} :
          pOut' = [job |-> r.job, row |-> IF r.expunged THEN "absent" ELSE pOut.row,
                   expunged |-> r.expunged, raised |-> r.raised, new |-> r.new]
    /\ pPc' = IF pOut'.raised THEN "job_raised" ELSE "job_final"
    /\ UNCHANGED <<pIn, engine, nvars, ivars, avars>>

(* The last flush (line 208) and the return. *)
JobReturn ==
    /\ pPc = "job_final"
    /\ IF pIn.final_flush_raises
       THEN /\ pOut' = [pOut EXCEPT !.raised = TRUE]
            /\ pPc' = "job_raised"
       ELSE /\ pOut' = [pOut EXCEPT !.row = IF pOut.expunged THEN "absent" ELSE pOut.job.status]
            /\ pPc' = "job_returned"
    /\ UNCHANGED <<pIn, engine, nvars, ivars, avars>>

SchedulerNext == JobCreate \/ JobStart \/ JobRun \/ JobReturn

InitScheduler == SchedulerInit /\ NormIdle /\ IngestInit /\ AnalysisIdle

SpecScheduler == InitScheduler /\ [][SchedulerNext]_vars

-----------------------------------------------------------------------------
(* app/api/routes.py: start_collection_job and the background task it      *)
(* schedules.  pIn[q] is the source a start request names; pOut is         *)
(*   [jobs: the collection_jobs table in insertion order (committed rows), *)
(*    req: the position and the answer of every request].                  *)
(* A job row also carries the position of its background task (bg).  The   *)
(* handlers are observed at their awaits.                                  *)

MaxRequests == 2

Requests == 1..MaxRequests

(* The sources table: S1 is a NEWS source, S2 a FORUM source (no collector *)
(* is registered for it), S3 is inactive; S0 is no row.                    *)
SourceRows ==
    [S1 |-> [source_type |-> "NEWS",  name |-> "bbc",   is_active |-> TRUE],
     S2 |-> [source_type |-> "FORUM", name |-> "forum", is_active |-> TRUE],
     S3 |-> [source_type |-> "NEWS",  name |-> "bbc",   is_active |-> FALSE]]

RequestSources == {"S0", "S1", "S2", "S3"}

_resolve_collector_type(source) ==
    IF source.source_type = "NEWS"
    THEN (IF source.name = "guardian" THEN "news_guardian" ELSE "news_bbc")
    ELSE source.source_type

ActiveJobs(jobs, source_id) ==
    {j \in 1..Len(jobs) : jobs[j].source_id = source_id
                          /\ jobs[j].status \in {"PENDING", "RUNNING"}}

(* Lines 1371-1392: the answer of the checks, "pass" when the job may be   *)
(* created.  scalar_one_or_none() raises MultipleResultsFound (an          *)
(* unhandled error, 500) when the query yields more than one row.          *)
start_checks(jobs, source_id) ==
    IF source_id \notin DOMAIN SourceRows THEN "404"
    ELSE IF ~SourceRows[source_id].is_active THEN "400"
    ELSE IF Cardinality(ActiveJobs(jobs, source_id)) > 1 THEN "500"
    ELSE IF Cardinality(ActiveJobs(jobs, source_id)) = 1 THEN "409"
    ELSE "pass"

NewJob(source_id) ==
    [source_id |-> source_id, status |-> "PENDING", items_collected |-> 0,
     error_message |-> "None", completed_at |-> FALSE, bg |-> "scheduled"]

BgFaults == {"none", "source_missing", "collect", "ingest", "commit"}

(* The except branch of the background task (lines 1337-1352): the job is  *)
(* selected again and committed FAILED on the same session, without a      *)
(* rollback; an error of these statements is logged and nothing else.      *)
background_failed(job, exc, recovery_raises) ==
    IF recovery_raises THEN [job EXCEPT !.bg = "returned"]
    ELSE [job EXCEPT !.status = "FAILED", !.completed_at = TRUE,
                     !.error_message = exc, !.bg = "returned"]

(* Lines 1297-1335 on a job that was set RUNNING: the source, the          *)
(* collector, the collection, the ingestion and the commit of COMPLETED.   *)
background_run(job, fault, recovery_raises, items) ==
    LET source == SourceRows[job.source_id]
    IN IF fault = "source_missing"
       THEN [job EXCEPT !.status = "FAILED", !.completed_at = TRUE,
                        !.error_message = "Source not found", !.bg = "returned"]
       ELSE IF _get_collector(_resolve_collector_type(source), source.name) = "ValueError"
       THEN background_failed(job, "ValueError", recovery_raises)
       ELSE IF fault = "collect"
       THEN background_failed(job, "CollectError", recovery_raises)
       ELSE IF fault = "ingest"
       THEN background_failed(job, "IngestError", recovery_raises)
       ELSE IF fault = "commit"
       THEN background_failed(job, "CommitError", recovery_raises)
       ELSE [job EXCEPT !.status = "COMPLETED", !.completed_at = TRUE,
                        !.items_collected = job_ingest(items, job.source_id).stats.new,
                        !.bg = "returned"]

JobItems == SeqsUpTo(ItemPool, 1)

JobsInit ==
    /\ pIn \in [Requests -> RequestSources]
    /\ pOut = [jobs |-> <<>>, req |-> [q \in Requests |-> [pc |-> "new", answer |-> "None"]]]
    /\ pPc = "jobs"
    /\ engine = EngineNew

(* A request runs the checks of start_collection_job. *)
StartCheck(q) ==
    /\ pPc = "jobs"
    /\ pOut.req[q].pc = "new"
    /\ \E answer \in {start_checks(pOut.jobs, pIn[q])} :
          pOut' = [pOut EXCEPT !.req[q] =
                      IF answer = "pass" THEN [pc |-> "checked", answer |-> "None"]
                      ELSE [pc |-> "answered", answer |-> answer]]
    /\ UNCHANGED <<pIn, pPc, engine, nvars, ivars, avars>>

(* The request inserts and commits the PENDING job, schedules the          *)
(* background task and answers 201.                                        *)
StartCreate(q) ==
    /\ pPc = "jobs"
    /\ pOut.req[q].pc = "checked"
    /\ pOut' = [pOut EXCEPT !.jobs = Append(@, NewJob(pIn[q])),
                            !.req[q] = [pc |-> "answered", answer |-> "201"]]
    /\ UNCHANGED <<pIn, pPc, engine, nvars, ivars, avars>>

(* The background task selects its job, sets it RUNNING and commits; when  *)
(* the select or the commit raises, the except branch runs.                *)
BackgroundBegin(j) ==
    /\ pPc = "jobs"
    /\ j <= Len(pOut.jobs)
    /\ pOut.jobs[j].bg = "scheduled"
    /\ \E raises, recovery_raises \in BOOLEAN :
          pOut' = [pOut EXCEPT !.jobs[j] =
                      IF raises THEN background_failed(@, "BeginError", recovery_raises)
                      ELSE [@ EXCEPT !.status = "RUNNING", !.bg = "running"]]
    /\ UNCHANGED <<pIn, pPc, engine, nvars, ivars, avars>>

(* The rest of the background task, to its return. *)
BackgroundRun(j) ==
    /\ pPc = "jobs"
    /\ j <= Len(pOut.jobs)
    /\ pOut.jobs[j].bg = "running"
    /\ \E fault \in BgFaults, recovery_raises \in BOOLEAN, items \in JobItems :
          pOut' = [pOut EXCEPT !.jobs[j] = background_run(@, fault, recovery_raises, items)]
    /\ UNCHANGED <<pIn, pPc, engine, nvars, ivars, avars>>

JobsNext ==
    \/ \E q \in Requests : StartCheck(q) \/ StartCreate(q)
    \/ \E j \in 1..MaxRequests : BackgroundBegin(j) \/ BackgroundRun(j)

InitJobs == JobsInit /\ NormIdle /\ IngestInit /\ AnalysisIdle

SpecJobs == InitJobs /\ [][JobsNext]_vars

-----------------------------------------------------------------------------
(* collectors/news_collector.py, BBCNewsCollector.collect.  URLs are       *)
(* numbers; pIn is max_results_per_keyword; pOut is the state of the       *)
(* loops, observed before each request of a search page:                   *)
(*   term      - the index of the search term whose body was begun last,   *)
(*   at        - "for": that body is over; "while": its loop goes on,      *)
(*   page, keyword_items_collected, new_urls_on_page, seen_urls as in the  *)
(*               code,                                                     *)
(*   fetched   - how often each URL was given to _fetch_article,           *)
(*   requests  - the search pages requested for the term,                  *)
(*   exhausted - the term had a page without a URL not seen before.        *)

MaxTerms == 2

MaxUrls == 11

MaxPerKeyword == 2

PageCap == 10

Urls == 1..MaxUrls

FetchOutcomes == {"item", "none", "raise"}

(* The loop over found_urls (lines 86-103).  outcome[k] is what            *)
(* _fetch_article does for the k-th URL of the page.                       *)
RECURSIVE fetch_urls(_, _, _, _, _)
fetch_urls(st, found_urls, outcome, k, max_results) ==
    IF k > Len(found_urls) THEN st
    ELSE IF found_urls[k] \in st.seen_urls
    THEN fetch_urls(st, found_urls, outcome, k + 1, max_results)
    ELSE LET st1 == [st EXCEPT !.seen_urls = @ \cup {found_urls[k]},
                               !.new_urls_on_page = @ + 1,
                               !.fetched = @ (+) SetToBag({found_urls[k]})]
         IN IF outcome[k] # "item"
            THEN fetch_urls(st1, found_urls, outcome, k + 1, max_results)
            ELSE LET st2 == [st1 EXCEPT !.keyword_items_collected = @ + 1]
                 IN IF st2.keyword_items_collected >= max_results THEN st2
                    ELSE fetch_urls(st2, found_urls, outcome, k + 1, max_results)

(* The body of the for loop begins for the next search term (lines 75-79). *)
begin_term(st) ==
    [st EXCEPT !.term = @ + 1, !.at = "while", !.page = 1,
               !.keyword_items_collected = 0, !.requests = 0, !.exhausted = FALSE]

(* The while loop was left by a break, by its condition or by the          *)
(* exception of a search (lines 113-115).                                  *)
end_term(st) == [st EXCEPT !.at = "for"]

(* A bug the page cap must notice: the page counter is not checked. *)
collect_page_uncapped(st, result, outcome, max_results) ==
    IF st.keyword_items_collected >= max_results THEN end_term(st)
    ELSE LET requested == [st EXCEPT !.requests = @ + 1]
         IN IF result.raised THEN end_term(requested)
            ELSE IF result.urls = <<>> THEN end_term(requested)
            ELSE LET st1 == fetch_urls([requested EXCEPT !.new_urls_on_page = 0],
                                       result.urls, outcome, 1, max_results)
                 IN IF st1.new_urls_on_page = 0
                    THEN end_term([st1 EXCEPT !.exhausted = TRUE])
                    ELSE [st1 EXCEPT !.page = @ + 1]

(* One test of the while condition and, when it holds, one pass of the     *)
(* loop (lines 80-111): the search of a page (result is its URL list, or   *)
(* the exception it raised) and what follows it.                           *)
collect_page(st, result, outcome, max_results) ==
    IF st.keyword_items_collected >= max_results THEN end_term(st)
    ELSE LET requested == [st EXCEPT !.requests = @ + 1]
         IN IF result.raised THEN end_term(requested)
            ELSE IF result.urls = <<>> THEN end_term(requested)
            ELSE LET st1 == fetch_urls([requested EXCEPT !.new_urls_on_page = 0],
                                       result.urls, outcome, 1, max_results)
                 IN IF st1.new_urls_on_page = 0
                    THEN end_term([st1 EXCEPT !.exhausted = TRUE])
                    ELSE IF st1.page + 1 > PageCap
                    THEN end_term([st1 EXCEPT !.page = @ + 1])
                    ELSE [st1 EXCEPT !.page = @ + 1]

LowestUrl(S) == CHOOSE u \in S : \A v \in S : u <= v

(* The answers of _search: an exception, or a page of up to two distinct   *)
(* URLs made of the lowest URL seen (old) and the two lowest URLs not seen *)
(* yet (first, second).                                                    *)
SearchResults(seen) ==
    LET unseen == Urls \ seen
        first  == IF unseen = {} THEN {} ELSE {LowestUrl(unseen)}
        second == IF unseen \ first = {} THEN {} ELSE {LowestUrl(unseen \ first)}
        old    == IF seen = {} THEN {} ELSE {LowestUrl(seen)}
    IN {[raised |-> TRUE, urls |-> <<>>], [raised |-> FALSE, urls |-> <<>>]}
       \cup {[raised |-> FALSE, urls |-> <<u>>] : u \in first \cup old}
       \cup {[raised |-> FALSE, urls |-> <<u, v>>] : u \in first, v \in old \cup second}
       \cup {[raised |-> FALSE, urls |-> <<v, u>>] : u \in first, v \in old}

CollectInit ==
    /\ pIn \in 0..MaxPerKeyword
    /\ pOut = [term |-> 0, at |-> "for", page |-> 1, keyword_items_collected |-> 0,
               seen_urls |-> {}, new_urls_on_page |-> 0, fetched |-> EmptyBag,
               requests |-> 0, exhausted |-> FALSE]
    /\ pPc = "collect"
    /\ engine = EngineNew

(* collect goes on to its next request of a search page, or to the end of  *)
(* the search term when the while condition fails.                         *)
CollectPage ==
    /\ pPc = "collect"
    /\ pOut.at = "while" \/ pOut.term < MaxTerms
    /\ LET st == IF pOut.at = "for" THEN begin_term(pOut) ELSE pOut
       IN \E result \in SearchResults(st.seen_urls),
             outcome \in [1..2 -> FetchOutcomes] :
             pOut' = collect_page(st, result, outcome, pIn)
    /\ UNCHANGED <<pIn, pPc, engine, nvars, ivars, avars>>

(* Every search term is done: collect returns. *)
CollectReturn ==
    /\ pPc = "collect"
    /\ pOut.at = "for"
    /\ pOut.term = MaxTerms
    /\ pPc' = "collected"
    /\ UNCHANGED <<pIn, pOut, engine, nvars, ivars, avars>>

CollectNext == CollectPage \/ CollectReturn

InitCollect == CollectInit /\ NormIdle /\ IngestInit /\ AnalysisIdle

(* Every await of collect ends: the HTTP client has a timeout of 30        *)
(* seconds and the rate limit is a sleep.                                  *)
SpecCollect == InitCollect /\ [][CollectNext]_vars /\ WF_vars(CollectNext)

-----------------------------------------------------------------------------
(* Properties of the normaliser.                                           *)

Range(q) == {q[k] : k \in 1..Len(q)}

NoWhitespaceRun(q) == \A k \in 1..(Len(q) - 1) : ~(q[k] \in Whitespace /\ q[k + 1] \in Whitespace)

Trimmed(q) == q = <<>> \/ (q[1] \notin Whitespace /\ q[Len(q)] \notin Whitespace)

(* C5: normalisation is idempotent: normalising the output of the          *)
(* normaliser again gives the same text, for every input text.             *)
C5_Idempotent == nPc = "twice" => nOut2 = nOut

-----------------------------------------------------------------------------
(* Properties of ingest_items, stated on the call that has just returned.  *)

AllRows == committed (+) flushed

HashOf(row) == row.raw_metadata["content_hash"]

ItemHash(item) == _content_hash(_normalise_text(item.content))

RECURSIVE SumCopies(_, _)
SumCopies(rows, bag) ==
    IF rows = {} THEN 0
    ELSE LET r == CHOOSE x \in rows : TRUE
         IN CopiesIn(r, bag) + SumCopies(rows \ {r}, bag)

(* Number of stored rows of a source that carry a fingerprint. *)
NCopies(source_id, h) ==
    SumCopies({r \in BagToSet(AllRows) : r.source_id = source_id /\ HashOf(r) = h}, AllRows)

(* The fingerprints stored for the call's source when the call began. *)
StoredBefore == {HashOf(r) : r \in {x \in call.before : x.source_id = call.source_id}}

(* Item k repeats a fingerprint stored for the source or met earlier in the batch. *)
IsRepeat(k) ==
    \/ ItemHash(call.items[k]) \in StoredBefore
    \/ \E j \in 1..(k - 1) : ItemHash(call.items[j]) = ItemHash(call.items[k])

Repeats == {k \in 1..Len(call.items) : IsRepeat(k)}

NewHashes == {HashOf(call.new_samples[k]) : k \in 1..Len(call.new_samples)}

(* The new records of the call that are in the database when it returns. *)
Persisted(k) == BagIn(call.new_samples[k], flushed)

C2_OtherRowsPersisted ==
    (/\ call # NoCall
     /\ Cardinality({k \in 1..Len(call.new_samples) :
                        call.new_samples[k].fault = "integrity"}) = 1)
        => \A k \in 1..Len(call.new_samples) :
              call.new_samples[k].fault = "none" => Persisted(k)

(* C3: a write conflict never leaves ingest_items: the call returns its    *)
(* statistics, and a row that conflicts again when retried alone is not    *)
(* stored.                                                                 *)
C3_ConflictContained ==
    call # NoCall =>
        /\ call.returned
        /\ ~call.raised
        /\ call.stats.total = Len(call.items)
        /\ call.stats.total = call.stats.new + call.stats.duplicates
        /\ \A k \in 1..Len(call.new_samples) :
              call.new_samples[k].fault # "none" => ~Persisted(k)

(* A call whose new records include a conflicting row has returned.        *)
C3_Witness ==
    /\ call # NoCall
    /\ call.returned
    /\ \E k \in 1..Len(call.new_samples) : call.new_samples[k].fault = "integrity"
    /\ \E k \in 1..Len(call.new_samples) : Persisted(k)

(* C4: deduplication is per source: an item is counted as a duplicate only *)
(* for a fingerprint stored under the call's own source or met earlier in  *)
(* the batch, and every other item becomes a new record of that source.    *)
C4_PerSource ==
    call # NoCall =>
        /\ call.stats.duplicates <= Cardinality(Repeats)
        /\ \A k \in 1..Len(call.items) :
              ~IsRepeat(k) => ItemHash(call.items[k]) \in NewHashes
        /\ \A k \in 1..Len(call.new_samples) :
              call.new_samples[k].source_id = call.source_id

(* The same content is stored once under each of the two sources, the      *)
(* second by a call that counted no duplicate.                             *)
C4_Witness ==
    /\ call # NoCall
    /\ call.stats.duplicates = 0
    /\ Len(call.items) = 1
    /\ \E r \in call.before : r.source_id # call.source_id
                              /\ HashOf(r) = ItemHash(call.items[1])
    /\ \A src \in Sources : NCopies(src, ItemHash(call.items[1])) = 1

(* C10: ingest_items leaves the locations table as it found it, and the    *)
(* location_id of every new record is None or the id of a location that    *)
(* was in the table when the call loaded its cache; the call returns also  *)
(* when hints or gazetteer matches name unknown places.                    *)
C10_LocationsFrame ==
    call # NoCall =>
        /\ locations = call.locations
        /\ call.returned
        /\ \A k \in 1..Len(call.new_samples) :
              \/ call.new_samples[k].location_id = NoLocation
              \/ call.new_samples[k].location_id \in {l.id : l \in call.locations}
        /\ \A r \in BagToSet(AllRows) :
              r.location_id = NoLocation \/ r.location_id \in {l.id : l \in locations}

(* A call resolved one record through a known hint that follows an unknown *)
(* one, and left a record that names only an unknown place without         *)
(* location.                                                               *)
C10_Witness ==
    /\ call # NoCall
    /\ \E k \in 1..Len(call.new_samples) :
          /\ call.new_samples[k].location_id # NoLocation
          /\ "location_hints" \in DOMAIN call.new_samples[k].raw_metadata
    /\ \E k \in 1..Len(call.new_samples) :
          /\ call.new_samples[k].location_id = NoLocation
          /\ call.new_samples[k].content = cB


-----------------------------------------------------------------------------
(* Analysis orchestrator: analyze_batch and analyze_sample.                *)

(* How many objects of a class a bag holds for a sample. *)
CountOf(bag, cls, sample_id) ==
    SumCopies({o \in BagToSet(bag) : o.cls = cls /\ o.sample_id = sample_id}, bag)

(* The objects the last call added. *)
NewObjects == AnalysisObjects (-) acall.before

(* C7: analyze_batch returns one entry per input record, in input order,   *)
(* each carrying the record's id; a record whose analysis raised gets the  *)
(* placeholder with the error marker, the others their analysis; the       *)
(* records after a failure are still analysed and nothing is raised to the *)
(* caller.                                                                 *)
C7_BatchIsolation ==
    acall.kind = "batch" =>
        /\ ~acall.raised
        /\ Len(acall.results) = Len(acall.inputs)
        /\ acall.attempted = [k \in 1..Len(acall.inputs) |-> acall.inputs[k].sample_id]
        /\ Len(acall.failed) = Len(acall.inputs)
        /\ \A k \in 1..Len(acall.inputs) :
              IF acall.failed[k]
              THEN acall.results[k] = ErrorOf(acall.inputs[k])
              ELSE acall.results[k] = ResultOf(acall.inputs[k])

(* A batch of two records of different samples whose first analysis        *)
(* raised: the second was analysed all the same (its sentiment object is   *)
(* in the session) and both have their entry.                              *)
C7_Witness ==
    /\ acall.kind = "batch"
    /\ Len(acall.inputs) = 2
    /\ acall.inputs[1].sample_id = "R1"
    /\ acall.inputs[2].sample_id = "R2"
    /\ acall.failed[1]
    /\ Len(acall.results) = 2
    /\ acall.results[1] = ErrorOf(acall.inputs[1])
    /\ acall.results[2].sample_id = "R2"
    /\ CountOf(NewObjects, "SentimentAnalysis", "R2") = 1

(* C8: analyze_sample on a record whose text the analysers have processed  *)
(* completes, and has then created exactly one sentiment result and one    *)
(* classification result owned by the record, one theme assignment per     *)
(* extracted theme and one location match per extracted location.          *)
C8_ResultsPersisted ==
    acall.kind = "sample" =>
        LET rec == acall.inputs[1]
        IN /\ ~acall.raised
           /\ CountOf(NewObjects, "SentimentAnalysis", rec.sample_id) = 1
           /\ CountOf(NewObjects, "DiscourseClassification", rec.sample_id) = 1
           /\ CountOf(NewObjects, "SampleTheme", rec.sample_id) = Len(rec.themes)
           /\ CountOf(NewObjects, "SampleLocation", rec.sample_id) = Len(rec.locations)

(* C9: every analysis of a record adds results and leaves the earlier ones *)
(* alone: a record analysed n times has n sentiment results and n          *)
(* classification results.                                                 *)
C9_ResultsAccumulate ==
    \A r \in SampleIds :
        /\ CountOf(AnalysisObjects, "SentimentAnalysis", r) = analysed[r]
        /\ CountOf(AnalysisObjects, "DiscourseClassification", r) = analysed[r]


-----------------------------------------------------------------------------
(* Location resolution.                                                    *)

(* The positions of a sequence of names whose lower-cased form is a key of *)
(* the cache.                                                              *)
InCache(names, cache) == {k \in 1..Len(names) : LowerOf(names[k]) \in DOMAIN cache}

SetMin(S) == CHOOSE k \in S : \A j \in S : k <= j

GazetteerNames(content) ==
    [k \in 1..Len(find_locations(content)) |-> find_locations(content)[k].name]

(* C11: _resolve_location returns the id of the first hint, in hint order, *)
(* whose lower-cased name is in the cache; the body is scanned only when   *)
(* no hint resolves, and then the first gazetteer match that is in the     *)
(* cache is chosen; otherwise there is no location.                        *)
C11_ResolutionOrder ==
    pPc = "returned" /\ "location_cache" \in DOMAIN pIn =>
        LET hits == InCache(pIn.location_hints, pIn.location_cache)
            names == GazetteerNames(pIn.normalised_content)
            found == InCache(names, pIn.location_cache)
        IN IF hits # {}
           THEN /\ pOut.location_id =
                      pIn.location_cache[LowerOf(pIn.location_hints[SetMin(hits)])]
                /\ ~pOut.scanned
           ELSE /\ pOut.scanned
                /\ pOut.location_id =
                      IF found # {} THEN pIn.location_cache[LowerOf(names[SetMin(found)])]
                      ELSE NoLocation

(* Both hints are in the cache and the body names a third cached place:    *)
(* the first hint wins although the second and the body would resolve too. *)
C11_Witness ==
    /\ pPc = "returned"
    /\ "location_cache" \in DOMAIN pIn
    /\ pIn.location_hints = <<"York", "LEEDS">>
    /\ pIn.normalised_content = cE
    /\ DOMAIN pIn.location_cache = {"leeds", "york", "reading"}
    /\ pOut.location_id = "L2"


-----------------------------------------------------------------------------
(* The analysers as shared objects of one engine.                          *)

(* C12: after the initialisation no analyser operation writes state that   *)
(* is shared between calls: the engine's instance state never changes.     *)
C12_NoSharedWrite == [][engine' = engine]_vars


-----------------------------------------------------------------------------
(* The discourse classifier.                                               *)

Abs(x) == IF x < 0 THEN -x ELSE x

(* C13: for every text, blank text and text without a keyword included,    *)
(* all_scores holds the five categories and its values (each rounded to 4  *)
(* decimals) sum to 1.0 up to the rounding: half a unit of the fourth      *)
(* decimal per category.                                                   *)
C13_ScoresSumToOne ==
    pPc = "classified" =>
        /\ DOMAIN pOut.all_scores = {CATEGORIES[k] : k \in 1..Len(CATEGORIES)}
        /\ Cardinality(DOMAIN pOut.all_scores) = 5
        /\ 2 * Abs(SumScores(pOut.all_scores, Len(CATEGORIES)) - 10000) <= Len(CATEGORIES)

(* Keywords of three categories, with shares 0.3529, 0.3529 and 0.2941:   *)
(* the rounded shares add up to 0.9999.                                    *)
C13_Witness ==
    /\ pPc = "classified"
    /\ pIn = <<"Installed", "worried", "community">>
    /\ pOut.all_scores["COMMUNITY_ACTION"] = 2941
    /\ SumScores(pOut.all_scores, Len(CATEGORIES)) = 9999

(* C14: classification_type is the first category, in declaration order,  *)
(* whose normalised score is maximal, confidence is its normalised score,  *)
(* and a text no keyword matches (blank text included) is classified as    *)
(* PRACTICAL_ADAPTATION with confidence 0.2.                               *)
C14_ArgMax ==
    pPc = "classified" =>
        LET pos(cat) == CHOOSE k \in 1..Len(CATEGORIES) : CATEGORIES[k] = cat
            best == pOut.classification_type
        IN /\ best \in DOMAIN pOut.all_scores
           /\ \A cat \in DOMAIN pOut.all_scores :
                 \/ pOut.all_scores[cat] < pOut.all_scores[best]
                 \/ pOut.all_scores[cat] = pOut.all_scores[best] /\ pos(best) <= pos(cat)
           /\ pOut.confidence = pOut.all_scores[best]
           /\ (\A k \in 1..Len(pIn) : \A cat \in DOMAIN CATEGORY_KEYWORDS :
                  \A kw \in CATEGORY_KEYWORDS[cat] : LowerOf(pIn[k]) # kw.keyword)
              => best = "PRACTICAL_ADAPTATION" /\ pOut.confidence = 2000

(* Two categories tie at the top: the one declared first is returned. *)
C14_Witness ==
    /\ pPc = "classified"
    /\ pIn = <<"worried", "SP", "Installed">>
    /\ pOut.all_scores["EMOTIONAL_RESPONSE"] = pOut.all_scores["PRACTICAL_ADAPTATION"]
    /\ pOut.classification_type = "PRACTICAL_ADAPTATION"
    /\ pOut.confidence = 5000


-----------------------------------------------------------------------------
(* The sentiment analyser.                                                 *)

(* C15: for any text and any base polarity scores in their ranges,         *)
(* overall_sentiment is in [-1, 1] and confidence in [0.3, 1.0]; the       *)
(* score of a text that is not blank is the base compound plus the lexicon *)
(* adjustment clamped to [-0.5, 0.5], that sum clamped to [-1, 1].         *)
C15_SentimentBounds ==
    pPc = "analyzed" =>
        /\ pOut.overall_sentiment >= -10000 /\ pOut.overall_sentiment <= 10000
        /\ pOut.confidence >= 3000 /\ pOut.confidence <= 10000
        /\ ~IsBlank(pIn.text) =>
              LET adj == SumModifiers(pIn.text)
                  clamped == IF adj < -50 THEN -50 ELSE IF adj > 50 THEN 50 ELSE adj
                  sum == pIn.vader_scores.compound + clamped
              IN pOut.overall_sentiment =
                    100 * (IF sum < -100 THEN -100 ELSE IF sum > 100 THEN 100 ELSE sum)

(* Both clamps act: three disaster words (-0.6, clamped to -0.5) on a base *)
(* compound of -0.75 give -1.0, with full confidence.                      *)
C15_Witness ==
    /\ pPc = "analyzed"
    /\ pIn.text = <<"disaster", "disaster", "disaster">>
    /\ pIn.vader_scores = [compound |-> -75, neu |-> 0]
    /\ pOut.overall_sentiment = -10000
    /\ pOut.confidence = 10000


-----------------------------------------------------------------------------
(* Blank input.                                                            *)

(* C16: no analyser operation raises on blank text.  For an empty or       *)
(* whitespace-only text analyze returns sentiment 0.0, NEUTRAL, confidence *)
(* 0.3, and extract_themes, get_keywords and extract_locations return the  *)
(* empty list; extract_themes_batch on texts some of which are blank       *)
(* returns one list per text, the empty list for every blank one.          *)
C16_BlankTolerated ==
    \A c \in Callers :
        pPc[c] = "returned" =>
            /\ pIn[c].op = "analyze" /\ IsBlank(pIn[c].arg) =>
                  /\ pOut[c].raised = "None"
                  /\ pOut[c].value = [overall_sentiment |-> 0, sentiment_label |-> "NEUTRAL",
                                      confidence |-> 3000]
            /\ pIn[c].op \in {"extract_themes", "get_keywords", "extract_locations"}
                  /\ IsBlank(pIn[c].arg) =>
                  pOut[c].raised = "None" /\ pOut[c].value = <<>>
            /\ pIn[c].op = "extract_themes_batch"
                  /\ (\E k \in 1..Len(pIn[c].arg) : IsBlank(pIn[c].arg[k])) =>
                  /\ pOut[c].raised = "None"
                  /\ Len(pOut[c].value) = Len(pIn[c].arg)
                  /\ \A k \in 1..Len(pIn[c].arg) :
                        IsBlank(pIn[c].arg[k]) => pOut[c].value[k] = <<>>


-----------------------------------------------------------------------------
(* The location matchers.                                                  *)

NamesOf(results) == [k \in 1..Len(results) |-> results[k].name]

NoRepeat(q) == \A j, k \in 1..Len(q) : j # k => q[j] # q[k]

(* The mentions of a gazetteer name that find_locations does not reject. *)
FindAccepted(name, text) ==
    {i \in 1..Len(text) :
        /\ LowerOf(text[i]) = LowerOf(name)
        /\ ~(LowerOf(name) = "york" /\ _is_new_york(text, i))
        /\ LowerOf(name) \in _AMBIGUOUS_NAMES => _has_geo_context(text, i)}

(* C17: both matchers return each canonical place name at most once,       *)
(* however often and in whatever letter case the text mentions it, and     *)
(* every place with an accepted mention is returned.                       *)
C17_EachPlaceOnce ==
    /\ pPc = "find_locations" =>
          /\ NoRepeat(NamesOf(pOut))
          /\ Range(NamesOf(pOut)) = {n \in DOMAIN UK_LOCATIONS : FindAccepted(n, pIn) # {}}
    /\ pPc = "extract_locations" =>
          /\ NoRepeat(NamesOf(pOut))
          /\ Range(NamesOf(pOut)) = {n \in DOMAIN GeoLocations : AcceptedMatches(n, pIn) # {}}

(* Leeds is mentioned twice, in different letter case, next to a second    *)
(* place: extract_locations returns Leeds once and York once.              *)
C17_Witness ==
    /\ pPc = "extract_locations"
    /\ pIn = <<"LEEDS", "SP", "Leeds", "SP", "York">>
    /\ NamesOf(pOut) = <<"Leeds", "York">>


(* A mention of a name with a context word of _GEO_CONTEXT_WORDS, as a     *)
(* word of the text, inside the window around it.                          *)
HasContextWord(text, i) ==
    \E j \in 1..Len(text) :
        /\ LowerOf(text[j]) \in _GEO_CONTEXT_WORDS
        /\ TokStart(text, j) >= TokStart(text, i) - _CONTEXT_WINDOW
        /\ TokEnd(text, j) <= TokEnd(text, i) + _CONTEXT_WINDOW

(* A mention of Reading that is followed by whitespace and a verb trigger. *)
FollowedByTrigger(text, i) ==
    /\ i + 1 <= Len(text) /\ text[i + 1] \in Whitespace
    /\ SkipSpace(text, i + 1) <= Len(text)
    /\ LowerOf(text[SkipSpace(text, i + 1)]) \in _READING_VERB_RE

(* C18: an ambiguous place name is reported only when one of its mentions  *)
(* has place evidence.  find_locations reports it only if a mention has a  *)
(* geography-indicating word within 80 characters; extract_locations       *)
(* reports Reading only if a mention is capitalised and not followed by a  *)
(* verb trigger phrase.                                                    *)
C18_PlaceEvidence ==
    /\ pPc = "find_locations" =>
          \A n \in Range(NamesOf(pOut)) :
              LowerOf(n) \in _AMBIGUOUS_NAMES =>
                  \E i \in 1..Len(pIn) : LowerOf(pIn[i]) = LowerOf(n) /\ HasContextWord(pIn, i)
    /\ pPc = "extract_locations" /\ "Reading" \in Range(NamesOf(pOut)) =>
          \E i \in 1..Len(pIn) :
              /\ LowerOf(pIn[i]) = "reading"
              /\ ~InitialIsLower(pIn[i])
              /\ ~FollowedByTrigger(pIn, i)


(* The word before position i (whitespace skipped) is "New". *)
PrecededByNew(text, i) ==
    /\ i >= 3
    /\ text[i - 1] \in Whitespace
    /\ SkipBack(text, i - 1) >= 1
    /\ LowerOf(text[SkipBack(text, i - 1)]) = "new"

(* C19: a mention of York that is immediately preceded by the word New is  *)
(* rejected: neither matcher reports York for a text whose only mentions   *)
(* of York are "New York".                                                 *)
C19_NewYorkRejected ==
    pPc \in {"find_locations", "extract_locations"}
        /\ (\E i \in 1..Len(pIn) : LowerOf(pIn[i]) = "york")
        /\ (\A i \in 1..Len(pIn) : LowerOf(pIn[i]) = "york" => PrecededByNew(pIn, i))
    => "York" \notin Range(NamesOf(pOut))


(* The position of a theme in the trending list, 0 when it is not there. *)
RankOf(trending, n) ==
    IF \E k \in 1..Len(trending) : trending[k].theme = n
    THEN CHOOSE k \in 1..Len(trending) : trending[k].theme = n
    ELSE 0

(* C20: the trending list of get_aggregated_insights holds the themes that *)
(* were mentioned in the last 30 days (at most 20), each scored by its     *)
(* recent share minus its all-time share, in descending order of score;    *)
(* a theme with 0 earlier and 5 recent mentions stands strictly above a    *)
(* theme with 100 earlier and 5 recent mentions.                           *)
C20_TrendingRanked ==
    pPc = "insights_done" /\ "trending" \notin pIn.fails =>
        LET trending     == pOut.trending_themes
            total_all    == OrOne(SumOver([n \in ThemeNames |-> pIn.old[n] + pIn.recent[n]], ThemeNames))
            total_recent == OrOne(SumOver(pIn.recent, ThemeNames))
            mentioned    == {n \in ThemeNames : pIn.recent[n] > 0}
        IN /\ Len(trending) = Min(TrendingLimit, Cardinality(mentioned))
           /\ \A k \in 1..Len(trending) :
                 /\ trending[k].theme \in mentioned
                 /\ trending[k].trend_score =
                       Round4(pIn.recent[trending[k].theme] * total_all
                                 - (pIn.old[trending[k].theme] + pIn.recent[trending[k].theme]) * total_recent,
                              total_recent * total_all)
           /\ \A k \in 1..(Len(trending) - 1) : trending[k].trend_score >= trending[k + 1].trend_score
           /\ \A a, b \in ThemeNames :
                 /\ pIn.old[a] = 0 /\ pIn.recent[a] = 5
                 /\ pIn.old[b] = 100 /\ pIn.recent[b] = 5
                 => /\ RankOf(trending, a) > 0
                    /\ RankOf(trending, b) > RankOf(trending, a)


InsightKeys ==
    {"sentiment_distribution", "theme_frequency", "geographic_distribution",
     "discourse_distribution", "trending_themes"}

(* C21: get_aggregated_insights never raises and returns all five keys; an *)
(* aggregate whose query fails, or whose table is empty, is the empty      *)
(* structure, and every aggregate whose query does not fail is computed    *)
(* from its table whatever happens to the others.                          *)
C21_AggregatesContained ==
    pPc = "insights_done" =>
        /\ DOMAIN pOut = InsightKeys
        /\ pOut.sentiment_distribution =
              (IF "sentiment" \in pIn.fails THEN <<>> ELSE GroupCounts(pIn.sentiment))
        /\ pOut.discourse_distribution =
              (IF "discourse" \in pIn.fails THEN <<>> ELSE GroupCounts(pIn.discourse))
        /\ DOMAIN pOut.geographic_distribution =
              (IF "geography" \in pIn.fails THEN {}
               ELSE {r \in InsightRegions : pIn.geography[r] > 0})
        /\ {pOut.theme_frequency[k].theme : k \in 1..Len(pOut.theme_frequency)} =
              (IF "themes" \in pIn.fails THEN {}
               ELSE {n \in ThemeNames : pIn.old[n] + pIn.recent[n] > 0})
        /\ {pOut.trending_themes[k].theme : k \in 1..Len(pOut.trending_themes)} =
              (IF "trending" \in pIn.fails THEN {}
               ELSE {n \in ThemeNames : pIn.recent[n] > 0})


ThemeRowsOf(wr, theme_name) == CopiesIn(ThemeRow(theme_name), wr.st.flushed (+) wr.st.pending)

C25_ConcurrentCreateConflicts ==
    pPc = "themes"
       /\ (\A w \in Writers : pIn[w].left >= 1 /\ pOut[w].pc \in {"done", "raised"})
    => /\ \E w \in Writers : pOut[w].conflict
       /\ \E w \in Writers : BagIn("Flooding", pOut[w].created)


JobEdges ==
    {<<"None", "PENDING">>, <<"PENDING", "RUNNING">>, <<"RUNNING", "COMPLETED">>,
     <<"RUNNING", "FAILED">>}

JobPcs == {"job_new", "job_pending", "job_running", "job_final", "job_returned", "job_raised"}

JobStepOk ==
    pPc \in JobPcs /\ pPc' \in JobPcs /\ pOut'.job.status # pOut.job.status
    => <<pOut.job.status, pOut'.job.status>> \in JobEdges

JobOutcomeOk ==
    /\ pPc = "job_returned" =>
          /\ pOut.job.status \in {"COMPLETED", "FAILED"}
          /\ pOut.job.completed_at
          /\ pOut.job.status = "COMPLETED" =>
                pOut.job.items_collected = job_ingest(pIn.items, "S1").stats.new
    /\ pPc \in {"job_final", "job_returned"}
          /\ (\/ pIn.collector_type \notin DOMAIN _COLLECTOR_REGISTRY
              \/ pIn.collect_raises
              \/ pIn.ingest_raises)
       => pOut.job.status = "FAILED" /\ pOut.job.error_message # "None"
    /\ pPc = "job_raised" /\ pOut.job.status # "None" => pIn.final_flush_raises

(* C23: a job of run_collection_job changes status only along PENDING ->   *)
(* RUNNING -> COMPLETED or FAILED; the returned job is COMPLETED or FAILED *)
(* with completed_at set; an error of the collector selection, the         *)
(* collection or the ingestion gives FAILED with a message and no          *)
(* exception; a COMPLETED job's items_collected is the ingestion's new.    *)
C23_JobLifecycle == []JobOutcomeOk /\ [][JobStepOk]_vars

C23_Witness ==
    /\ pPc = "job_returned"
    /\ pIn.collect_raises
    /\ pOut.job.status = "FAILED"
    /\ pOut.job.error_message = "CollectError"


(* C24: every record a call persists carries under content_hash the        *)
(* fingerprint of its own stored content, also when the harvester's        *)
(* raw_metadata held a content_hash already, and the call leaves the       *)
(* raw_metadata of every item as it was.                                   *)
C24_OwnFingerprint ==
    /\ \A r \in BagToSet(AllRows) :
          /\ "content_hash" \in DOMAIN r.raw_metadata
          /\ r.raw_metadata["content_hash"] = _content_hash(r.content)
    /\ call # NoCall => call.harvested = call.items

(* A persisted record of an item whose raw_metadata came with a stale      *)
(* content_hash.                                                           *)
C24_Witness ==
    /\ call # NoCall
    /\ \E k \in 1..Len(call.items) :
          /\ call.items[k].raw_metadata = StaleMetadata
          /\ \E r \in BagToSet(flushed) :
                /\ r.content = _normalise_text(call.items[k].content)
                /\ r.raw_metadata["content_hash"] = _content_hash(r.content)
                /\ r.raw_metadata["content_hash"] # StaleMetadata["content_hash"]


(* C26: the new count a call returns is the number of its records that are *)
(* in the database when it returns, also after a write conflict made       *)
(* _batch_insert skip rows or roll back; and total = new + duplicates.     *)
C26_NewCountsPersisted ==
    call # NoCall =>
        /\ call.stats.new = Cardinality({k \in 1..Len(call.new_samples) : Persisted(k)})
        /\ call.stats.total = call.stats.new + call.stats.duplicates


(* C27: at every moment a source has at most one job that is PENDING or    *)
(* RUNNING, and a start request that finds such a job is answered 409 and  *)
(* creates none, also when two start requests for the source are handled   *)
(* at the same time.                                                       *)
C27_OneActiveJobPerSource ==
    pPc = "jobs" =>
        \A source_id \in RequestSources : Cardinality(ActiveJobs(pOut.jobs, source_id)) <= 1

(* C28: a job that the background task has set RUNNING is COMPLETED or     *)
(* FAILED when the task has returned, whichever step failed after that.    *)
C28_NoJobLeftRunning ==
    pPc = "jobs" =>
        \A j \in 1..Len(pOut.jobs) :
            pOut.jobs[j].bg = "returned" /\ pOut.jobs[j].status # "PENDING"
            => pOut.jobs[j].status \in {"COMPLETED", "FAILED"}


(* C29: a record whose analysis failed inside analyze_batch leaves nothing *)
(* behind: when every analysis of a record in the batch raised, the call   *)
(* has added no sentiment result, classification result, theme assignment  *)
(* or location match of that record to the session or the database.        *)
C29_NoPartialResult ==
    acall.kind = "batch" =>
        \A k \in 1..Len(acall.attempted) :
            (\A j \in 1..Len(acall.attempted) :
                acall.attempted[j] = acall.attempted[k] => acall.failed[j])
            => \A cls \in {"SentimentAnalysis", "DiscourseClassification",
                           "SampleTheme", "SampleLocation"} :
                  CountOf(NewObjects, cls, acall.attempted[k]) = 0


CollectBounded ==
    pPc \in {"collect", "collected"} =>
        /\ pOut.requests <= PageCap
        /\ pOut.keyword_items_collected <= pIn
        /\ \A u \in Urls : CopiesIn(u, pOut.fetched) <= 1

CollectStopsPaging ==
    pPc = "collect" /\ pOut.exhausted /\ pOut'.term = pOut.term =>
        pOut'.requests = pOut.requests

(* C30: collect terminates whatever the searches and the fetches answer;   *)
(* for each keyword it requests at most 10 search pages and collects at    *)
(* most max_results_per_keyword articles, it requests no further page of a *)
(* keyword after a page without a URL not seen before, and it fetches each *)
(* URL at most once.                                                       *)
C30_CollectTerminates ==
    /\ []CollectBounded
    /\ [][CollectStopsPaging]_vars
    /\ <>(pPc = "collected")

(* The tenth page of a keyword was requested and the collection has ended. *)
C30_Witness ==
    /\ pPc = "collected"
    /\ pOut.requests = PageCap
    /\ \E u \in Urls : CopiesIn(u, pOut.fetched) = 1

====
